---------------------------- MODULE Spec2Model ----------------------------
(***************************************************************************)
(* A model of mquery's query handlers (Actions.FreqDistrib, TextTypes and  *)
(* their scatter-gather variants), of the corpus-editing handlers          *)
(* (Actions.SplitCorpus, MultiSample, CollFreqData), of the split-corpus   *)
(* partitioner (splitCorpus, createSubcorpus), of FreqDistrib.MergeWith,   *)
(* of the concordance calls of the mango wrapper and of the fcoll loader   *)
(* (CounterTable, runForDeprel).                                           *)
(*                                                                         *)
(* The state machines share the variables:                                 *)
(*   Spec        one request to a parallel query handler, its shard        *)
(*               goroutines and the workers resolving the futures;         *)
(*   SingleSpec  one request to a single-shard query handler;              *)
(*   QuerySpec   one request to either kind of query handler;              *)
(*   EditSpec    one request to a corpus-editing handler;                  *)
(*   RaceSpec    two SplitCorpus requests for one corpus at once;          *)
(*   SplitSpec   one call of splitCorpus;                                  *)
(*   CreateSpec  one call of createSubcorpus;                              *)
(*   NameSpec    the names of two descriptor files compared;               *)
(*   MergeSpec   merges of frequency distributions;                        *)
(*   ConcSpec    one call of GetConcordance(WithCollPhrase);               *)
(*   DbSpec      one call of runForDeprel;                                 *)
(*   TableSpec   calls of CounterTable.Add.                                *)
(* Each keeps the others' variables unchanged.                             *)
(***************************************************************************)
EXTENDS Integers, Sequences, FiniteSets, TLC

VARIABLES
    \* ---- the request (inputs of the handler)
    handler,      \* "FreqDistribParallel" | "TextTypesParallel" | "FreqDistrib" | "TextTypes" |
                  \* "SplitCorpus" | "MultiSample" | "CollFreqData"
    flimitArg,    \* the flimit URL argument as sent (Absent when not given)
    maxItemsArg,  \* the maxItems URL argument as sent (Absent when not given)
    flimit,       \* local `flimit`
    maxItems,     \* local `maxItems`
    Subcorpora,   \* sc.Subcorpora: the shard paths of the opened split corpus
    corp,         \* what the corpus engine holds for each shard: its full distribution
    \* ---- the handler goroutine
    pcH,          \* "open" | "flimit" | "maxitems" | "start" | "loop" | "wait" | "cut" |
                  \* "publish" | "await" | "deser" | "done" | "error" | "panicked"
    idx,          \* position of `for _, subc := range sc.Subcorpora`
    wg,           \* sync.WaitGroup counter
    mergedFreqLock, \* 0: unlocked, s: held by shard s's goroutine
    result,       \* the shared accumulator, *results.FreqDistrib
    response,     \* what WriteJSONResponse was given (NoResponse before)
    status,       \* the HTTP status of the response ("none" before)
    publishCalls, \* the calls of radapter.PublishQuery so far: arguments and outcome
    \* ---- per shard
    jobs,         \* the published rdb.Query arguments (NoJob when none)
    wait,         \* the future: none, pending, resolved (with its envelope), consumed
    task,         \* the shard goroutine's position
    tmp,          \* the received envelope
    resultNext,   \* the deserialized partial result
    deserErr,     \* err of DeserializeXxxResult
    \* ---- splitCorpus
    pcS,          \* "idle" | "call" | "isdir" | "chunks" | "ok" | "error";
                  \* "create" | "created" when createSubcorpus is called on its own
    chunkSize,    \* the chunk size in use
    corpusSize,   \* what mango.GetCorpusSize reports
    size,         \* local `size`
    numChunks,    \* local `numChunks`
    chunkIdx,     \* local `i`
    ans,          \* corpus.SplitCorpus being built: its Subcorpora
    dirExists,    \* whether corpDir exists
    files,        \* the shard directory: path -> file bytes
    \* ---- FreqDistrib.MergeWith applied to operands
    pcM,          \* "idle" | "input" | "merged"
    opA, opB, opC,  \* three partial results
    folds,        \* the accumulators the folds left
    \* ---- GetConcordance / GetConcordanceWithCollPhrase
    pcC,          \* "idle" | "call" | "engine" | "returned" | "panicked"
    concFn,       \* which of the two functions is called
    concArgs,     \* fromLine, maxItems, maxContext
    engineAns,    \* `ans`, what C.conc_examples... returned
    concRet,      \* the returned (GoConcordance, error)
    \* ---- the edit handlers (they use the handler's variables above as well)
    variant,      \* CollFreqData: ctx.Param("variant")
    numSamplesArg, \* MultiSample: the numSamples URL argument as sent
    numSamples,   \* MultiSample: local `numSamples`
    dataCheck,    \* CollFreqData: per unit, what CollFreqDataExists answered
    \* ---- createSubcorpus called on its own
    fromIdxArg,   \* argument `fromIdx`
    toIdxArg,     \* argument `toIdx`
    \* ---- the names of two descriptor files, compared
    chunkA,       \* the chunk index `i` of the one
    chunkB,       \* the chunk index `i` of the other
    lexOrder,     \* how the two names compare as strings ("none" before)
    \* ---- two SplitCorpus requests for one corpus, running at once
    rpc,          \* per request: "exists" | "size" | "isdir" | "chunks" | "split" |
                  \* "refused" | "failed"
    ri,           \* per request: local `i` of its splitCorpus call
    writers,      \* per descriptor path: the requests that have written it
    \* ---- fcoll.runForDeprel
    pcD,          \* "idle" | "parse" | "begin" | "delete" | "loop" | "commit" | "returned"
    tableLen,     \* len(table): the entries the parsed vertical file gave
    ranged,       \* the entries `for _, v := range table` has passed
    batchLen,     \* local `i` (= len(valueStrings))
    sink,         \* the rows of <corpusID>_fcolls other connections see
    tx,           \* the transaction `tx`: whether open, and the statements run in it
    dbRet,        \* what runForDeprel returned ("none" before)
    \* ---- fcoll.CounterTable
    table,        \* the map: key -> *CTItem
    adds          \* the Add calls made so far: their arguments

reqVars == <<handler, flimitArg, maxItemsArg, Subcorpora, corp>>
parsedVars == <<flimit, maxItems>>
gatherVars == <<reqVars, parsedVars, pcH, idx, wg, mergedFreqLock, result, response,
                status, publishCalls, jobs, wait, task, tmp, resultNext, deserErr>>
splitVars == <<pcS, chunkSize, corpusSize, size, numChunks, chunkIdx, ans,
               dirExists, files>>
mergeVars == <<pcM, opA, opB, opC, folds>>
concVars == <<pcC, concFn, concArgs, engineAns, concRet>>
editVars == <<variant, numSamplesArg, numSamples, dataCheck>>
createVars == <<fromIdxArg, toIdxArg>>
nameVars == <<chunkA, chunkB, lexOrder>>
raceVars == <<rpc, ri, writers>>
dbVars == <<pcD, tableLen, ranged, batchLen, sink, tx, dbRet>>
tableVars == <<table, adds>>
restVars == <<createVars, nameVars, raceVars, dbVars, tableVars>>
auxVars == <<mergeVars, concVars, editVars, restVars>>
othersOfMerge == <<gatherVars, splitVars, concVars, editVars, restVars>>
othersOfConc == <<gatherVars, splitVars, mergeVars, editVars, restVars>>
vars == <<gatherVars, splitVars, auxVars>>

---------------------------------------------------------------------------
(* Bounds *)
MaxShards == 2
MaxItemsArg == 2
MaxCapacity == 4

(* `cut = 100` when maxItems is 0 *)
DfltCut == 100

---------------------------------------------------------------------------
(* results.FreqDistribItem and sequences of them *)

Item(w, f, n) == [word |-> w, freq |-> f, norm |-> n]

\* a nil *FreqDistribItem, as found in a backing array past the slice's length
NilItem == [word |-> "<nil>", freq |-> 0, norm |-> 0]

NoJob == [Func |-> "none"]

\* A future (the channel PublishQuery returns) and the envelope it carries
Future(st, env) == [state |-> st, envelope |-> env]
NoEnvelope == [status |-> "none", payload |-> <<>>]
NoResponse == <<"no response">>

\* The distributions a shard may hold, in the order the engine returns them.
ShardDists ==
    { << Item("cat", 5, 50), Item("dog", 2, 20) >>,
      << Item("bird", 4, 40), Item("cat", 1, 10) >>,
      << Item("bird", 2, 20) >> }

\* The shards whose distribution is drawn from all of ShardDists; a shard
\* past them holds the one-word distribution.
VariedShards == 2
LaterShardDist == << Item("bird", 2, 20) >>

\* What the engine holds for n shards
CorpusDists(n) ==
    { c \in [1..n -> ShardDists] : \A s \in 1..n : s > VariedShards => c[s] = LaterShardDist }

Words == {"cat", "dog", "bird"}

---------------------------------------------------------------------------
(* FreqDistrib.MergeWith: union by word, freq and norm summed on collision, *)
(* a new word appended.                                                     *)

IndexOfWord(freqs, w) ==
    IF \E i \in 1..Len(freqs) : freqs[i].word = w
    THEN CHOOSE i \in 1..Len(freqs) : freqs[i].word = w
    ELSE 0

\* a merge that never finds the word: every item is appended
MergeItemNoMatch(freqs, it) == Append(freqs, it)

\* a merge that puts a new word in front
MergeItemPrepend(freqs, it) ==
    LET i == IndexOfWord(freqs, it.word) IN
    IF i = 0 THEN <<it>> \o freqs
    ELSE [freqs EXCEPT ![i] = Item(@.word, @.freq + it.freq, @.norm + it.norm)]

MergeItem(freqs, it) ==
    LET i == IndexOfWord(freqs, it.word) IN
    IF i = 0 THEN Append(freqs, it)
    ELSE [freqs EXCEPT ![i] = Item(@.word, @.freq + it.freq, @.norm + it.norm)]

RECURSIVE MergeFreqs(_, _)
MergeFreqs(freqs, other) ==
    IF other = <<>> THEN freqs
    ELSE MergeFreqs(MergeItem(freqs, Head(other)), Tail(other))

MergeWith(res, other) == [Freqs |-> MergeFreqs(res.Freqs, other.Freqs)]

---------------------------------------------------------------------------
(* sort.SliceStable(result.Freqs, Freqs[i].Freq > Freqs[j].Freq) *)

InsertStable(sorted, it) ==
    LET k == Cardinality({i \in 1..Len(sorted) : sorted[i].freq >= it.freq}) IN
    SubSeq(sorted, 1, k) \o <<it>> \o SubSeq(sorted, k + 1, Len(sorted))

RECURSIVE SortFrom(_, _)
SortFrom(sorted, rest) ==
    IF rest = <<>> THEN sorted
    ELSE SortFrom(InsertStable(sorted, Head(rest)), Tail(rest))

SliceStable(freqs) == SortFrom(<<>>, freqs)

(* cut := maxItems; if maxItems == 0 { cut = 100 } *)
Cut(m) == IF m = 0 THEN DfltCut ELSE m

(* The slice expression result.Freqs[:cut] on a slice of the given capacity:  *)
(* out of range when cut exceeds the capacity; otherwise the first cut        *)
(* elements of the backing array, those past the length being nil.            *)
SliceInRange(freqs, cut, capacity) == 0 <= cut /\ cut <= capacity

SliceTo(freqs, cut) ==
    [i \in 1..cut |-> IF i <= Len(freqs) THEN freqs[i] ELSE NilItem]

---------------------------------------------------------------------------
(* Decimal numerals, and the numeric URL arguments flimit and maxItems *)

DigitChars == <<"0", "1", "2", "3", "4", "5", "6", "7", "8", "9">>

RECURSIVE Decimal(_)
Decimal(i) ==
    IF i < 10 THEN <<DigitChars[i + 1]>>
    ELSE Append(Decimal(i \div 10), DigitChars[(i % 10) + 1])

\* ctx.Request.URL.Query().Has(name) is false
Absent == <<"<absent>">>

\* values strconv.Atoi rejects: a letter, digits followed by a letter, the empty string
MalformedArgs == { <<"x">>, <<"2", "x">>, <<>> }

FlimitArgs == {Absent, Decimal(2)} \cup MalformedArgs
\* TextTypesParallel is always sent a flimit (its requests differ in maxItems)
GivenFlimitArgs == {Decimal(2)} \cup MalformedArgs
MaxItemsArgs == {Absent} \cup { Decimal(i) : i \in 1..MaxItemsArg } \cup MalformedArgs

IsDigit(ch) == \E d \in 1..10 : DigitChars[d] = ch
DigitValue(ch) == (CHOOSE d \in 1..10 : DigitChars[d] = ch) - 1

RECURSIVE DigitsValue(_)
DigitsValue(digits) ==
    IF digits = <<>> THEN 0
    ELSE 10 * DigitsValue(SubSeq(digits, 1, Len(digits) - 1)) + DigitValue(digits[Len(digits)])

\* a conversion that takes whatever it is given for 0, without an error
AtoiLenient(str) == [err |-> FALSE, value |-> 0]

(* strconv.Atoi: an optional sign and at least one digit, nothing else;     *)
(* otherwise 0 and an error.                                                *)
Atoi(str) ==
    LET signed == str # <<>> /\ Head(str) \in {"+", "-"}
        digits == IF signed THEN Tail(str) ELSE str
    IN  IF digits = <<>> \/ \E i \in 1..Len(digits) : ~IsDigit(digits[i])
        THEN [err |-> TRUE, value |-> 0]
        ELSE [err |-> FALSE,
              value |-> IF signed /\ Head(str) = "-" THEN 0 - DigitsValue(digits)
                        ELSE DigitsValue(digits)]

\* the body uniresp.WriteJSONErrorResponse writes
ErrorResponse == <<"error">>

---------------------------------------------------------------------------
(* The job of one shard and what the worker makes of it *)

Shards == 1..Len(Subcorpora)

(* json.Marshal(rdb.FreqDistribArgs{...}) of FreqDistribParallel *)
FreqDistribArgs(subc) ==
    [Func |-> "freqDistrib", CorpusPath |-> "corpusPath", SubcPath |-> subc,
     Query |-> "q", Crit |-> "lemma/e 0~0>0", Limit |-> flimit, MaxResults |-> 0]

(* json.Marshal(rdb.FreqDistribArgs{...}) of TextTypesParallel *)
TextTypesArgs(subc) ==
    [Func |-> "freqDistrib", CorpusPath |-> "corpusPath", SubcPath |-> subc,
     Query |-> "q", Crit |-> "attr 0", FreqLimit |-> flimit, MaxResults |-> maxItems]

\* every job carrying the path of the first shard
JobArgsFirstShard(subc) ==
    IF handler = "FreqDistribParallel" THEN FreqDistribArgs(Subcorpora[1])
    ELSE TextTypesArgs(Subcorpora[1])

JobArgs(subc) ==
    IF handler = "FreqDistribParallel" THEN FreqDistribArgs(subc)
    ELSE TextTypesArgs(subc)

(* The worker's freqDistrib: the shard's distribution, capped to the job's  *)
(* MaxResults (to the worker's configured default when MaxResults is 0).    *)
WorkerFreqDistrib(args) ==
    LET full == corp[args.SubcPath] IN
    IF Len(full) > Cut(args.MaxResults) THEN SubSeq(full, 1, Cut(args.MaxResults))
    ELSE full

EnvelopeStatus == {"ok", "decodeErr", "workerErr"}

(* What DeserializeXxxResult may return for an envelope: for a payload that *)
(* does not decode, the error and whatever part was decoded before it.      *)
Deserialized(env) ==
    CASE env.status = "ok" ->
            { [err |-> FALSE, value |-> [Freqs |-> env.payload]] }
      [] env.status = "workerErr" ->
            { [err |-> FALSE, value |-> [Freqs |-> <<>>]] }
      [] OTHER ->
            { [err |-> TRUE, value |-> [Freqs |-> <<>>]],
              [err |-> TRUE, value |-> [Freqs |-> env.payload]] }

---------------------------------------------------------------------------
(* The parallel query handlers *)

GatherInit ==
    /\ handler \in {"FreqDistribParallel", "TextTypesParallel"}
    /\ flimitArg \in (IF handler = "TextTypesParallel" THEN GivenFlimitArgs ELSE FlimitArgs)
    /\ maxItemsArg \in (IF handler = "TextTypesParallel" THEN MaxItemsArgs ELSE {Absent})
    /\ flimit = 1
    /\ maxItems = 0
    /\ \E n \in 1..MaxShards :
          /\ Subcorpora = [i \in 1..n |-> i]
          /\ corp \in CorpusDists(n)
          /\ jobs = [s \in 1..n |-> NoJob]
          /\ wait = [s \in 1..n |-> Future("none", NoEnvelope)]
          /\ task = [s \in 1..n |-> "none"]
          /\ tmp = [s \in 1..n |-> NoEnvelope]
          /\ resultNext = [s \in 1..n |-> [Freqs |-> <<>>]]
          /\ deserErr = [s \in 1..n |-> FALSE]
    /\ pcH = "open"
    /\ idx = 1
    /\ wg = 0
    /\ mergedFreqLock = 0
    /\ result = [Freqs |-> <<>>]
    /\ response = NoResponse
    /\ status = "none"
    /\ publishCalls = <<>>

GatherIdle ==
    /\ handler = "FreqDistribParallel"
    /\ flimitArg = Absent
    /\ maxItemsArg = Absent
    /\ flimit = 1
    /\ maxItems = 0
    /\ Subcorpora = <<>>
    /\ corp = <<>>
    /\ jobs = <<>>
    /\ wait = <<>>
    /\ task = <<>>
    /\ tmp = <<>>
    /\ resultNext = <<>>
    /\ deserErr = <<>>
    /\ pcH = "idle"
    /\ idx = 1
    /\ wg = 0
    /\ mergedFreqLock = 0
    /\ result = [Freqs |-> <<>>]
    /\ response = NoResponse
    /\ status = "none"
    /\ publishCalls = <<>>

\* what every step before the publishing loop leaves alone
preludeUnchanged == <<splitVars, auxVars, reqVars, idx, wg, mergedFreqLock, result,
                      publishCalls, jobs, wait, task, tmp, resultNext, deserErr>>

(* corpus.OpenSplitCorpus(a.conf.SplitCorporaDir, corpusPath) returned sc *)
OpenOk ==
    /\ pcH = "open"
    /\ pcH' = "flimit"
    /\ UNCHANGED <<preludeUnchanged, parsedVars, response, status>>

(* corpus.OpenSplitCorpus returned an error *)
OpenErr ==
    /\ pcH = "open"
    /\ response' = ErrorResponse
    /\ status' = "StatusInternalServerError"
    /\ pcH' = "error"
    /\ UNCHANGED <<preludeUnchanged, parsedVars>>

\* where each handler goes once flimit is read
AfterFlimit ==
    CASE handler = "TextTypesParallel" -> "maxitems"
      [] handler = "FreqDistribParallel" -> "start"
      [] OTHER -> "publish"

(* if Has("flimit") { flimit, err = strconv.Atoi(Get("flimit")); ... } *)
ParseFlimit ==
    /\ pcH = "flimit"
    /\ IF flimitArg = Absent
       THEN /\ pcH' = AfterFlimit
            /\ UNCHANGED <<flimit, response, status>>
       ELSE IF Atoi(flimitArg).err
       THEN /\ flimit' = Atoi(flimitArg).value
            /\ response' = ErrorResponse
            /\ status' = "StatusUnprocessableEntity"
            /\ pcH' = "error"
       ELSE /\ flimit' = Atoi(flimitArg).value
            /\ pcH' = AfterFlimit
            /\ UNCHANGED <<response, status>>
    /\ UNCHANGED <<preludeUnchanged, maxItems>>

(* if Has("maxItems") { maxItems, err = strconv.Atoi(Get("maxItems")); ... } *)
ParseMaxItems ==
    /\ pcH = "maxitems"
    /\ IF maxItemsArg = Absent
       THEN /\ pcH' = "start"
            /\ UNCHANGED <<maxItems, response, status>>
       ELSE IF Atoi(maxItemsArg).err
       THEN /\ maxItems' = Atoi(maxItemsArg).value
            /\ response' = ErrorResponse
            /\ status' = "StatusUnprocessableEntity"
            /\ pcH' = "error"
       ELSE /\ maxItems' = Atoi(maxItemsArg).value
            /\ pcH' = "start"
            /\ UNCHANGED <<response, status>>
    /\ UNCHANGED <<preludeUnchanged, flimit>>

(* mergedFreqLock := sync.Mutex{}; wg.Add(len(sc.Subcorpora)); result := ... *)
Begin ==
    /\ pcH = "start"
    /\ wg' = wg + Len(Subcorpora)
    /\ result' = [Freqs |-> <<>>]
    /\ mergedFreqLock' = 0
    /\ idx' = 1
    /\ pcH' = IF Len(Subcorpora) = 0 THEN "wait" ELSE "loop"
    /\ UNCHANGED <<splitVars, auxVars, reqVars, parsedVars, status, publishCalls, response, jobs, wait, task,
                   tmp, resultNext, deserErr>>

NextIteration ==
    /\ idx' = idx + 1
    /\ pcH' = IF idx = Len(Subcorpora) THEN "wait" ELSE "loop"

(* json.Marshal of a struct of strings and ints does not fail, so the error *)
(* return inside the loop is not taken.                                     *)
(* PublishQuery returned a future: the shard's goroutine is started         *)
PublishOk ==
    /\ pcH = "loop"
    /\ jobs' = [jobs EXCEPT ![idx] = JobArgs(Subcorpora[idx])]
    /\ wait' = [wait EXCEPT ![idx] = Future("pending", NoEnvelope)]
    /\ task' = [task EXCEPT ![idx] = "await"]
    /\ publishCalls' = Append(publishCalls, [args |-> JobArgs(Subcorpora[idx]), ok |-> TRUE])
    /\ NextIteration
    /\ UNCHANGED <<splitVars, auxVars, reqVars, parsedVars, status, wg, mergedFreqLock, result,
                   response, tmp, resultNext, deserErr>>

(* PublishQuery returned an error: it is logged, nothing else *)
PublishFail ==
    /\ pcH = "loop"
    /\ task' = [task EXCEPT ![idx] = "pubfailed"]
    /\ publishCalls' = Append(publishCalls, [args |-> JobArgs(Subcorpora[idx]), ok |-> FALSE])
    /\ NextIteration
    /\ UNCHANGED <<splitVars, auxVars, reqVars, parsedVars, status, wg, mergedFreqLock, result,
                   response, jobs, wait, tmp, resultNext, deserErr>>

(* A worker resolves the future of a published job *)
Resolve(s) ==
    /\ wait[s].state = "pending"
    /\ \E st \in EnvelopeStatus :
          wait' = [wait EXCEPT ![s] =
                      Future("resolved",
                             [status |-> st, payload |-> WorkerFreqDistrib(jobs[s])])]
    /\ UNCHANGED <<splitVars, auxVars, reqVars, parsedVars, status, publishCalls, pcH, idx, wg, mergedFreqLock,
                   result, response, jobs, task, tmp, resultNext, deserErr>>

(* tmp := <-wait *)
Receive(s) ==
    /\ task[s] = "await"
    /\ wait[s].state = "resolved"
    /\ tmp' = [tmp EXCEPT ![s] = wait[s].envelope]
    /\ wait' = [wait EXCEPT ![s] = Future("consumed", NoEnvelope)]
    /\ task' = [task EXCEPT ![s] = "deser"]
    /\ UNCHANGED <<splitVars, auxVars, reqVars, parsedVars, status, publishCalls, pcH, idx, wg, mergedFreqLock,
                   result, response, jobs, resultNext, deserErr>>

(* resultNext, err := rdb.DeserializeXxxResult(tmp); an error is logged *)
Deserialize(s) ==
    /\ task[s] = "deser"
    /\ \E d \in Deserialized(tmp[s]) :
          /\ resultNext' = [resultNext EXCEPT ![s] = d.value]
          /\ deserErr' = [deserErr EXCEPT ![s] = d.err]
    /\ task' = [task EXCEPT ![s] = "lock"]
    /\ UNCHANGED <<splitVars, auxVars, reqVars, parsedVars, status, publishCalls, pcH, idx, wg, mergedFreqLock,
                   result, response, jobs, wait, tmp>>

\* a lock that is taken without waiting for its holder
LockNoWait(s) ==
    /\ task[s] = "lock"
    /\ mergedFreqLock' = s
    /\ task' = [task EXCEPT ![s] = "merge"]
    /\ UNCHANGED <<splitVars, auxVars, reqVars, parsedVars, status, publishCalls, pcH, idx, wg,
                   result, response, jobs, wait, tmp, resultNext, deserErr>>

(* mergedFreqLock.Lock() *)
Lock(s) ==
    /\ task[s] = "lock"
    /\ mergedFreqLock = 0
    /\ mergedFreqLock' = s
    /\ task' = [task EXCEPT ![s] = "merge"]
    /\ UNCHANGED <<splitVars, auxVars, reqVars, parsedVars, status, publishCalls, pcH, idx, wg, result,
                   response, jobs, wait, tmp, resultNext, deserErr>>

(* result.MergeWith(&resultNext) *)
Merge(s) ==
    /\ task[s] = "merge"
    /\ result' = MergeWith(result, resultNext[s])
    /\ task' = [task EXCEPT ![s] = "unlock"]
    /\ UNCHANGED <<splitVars, auxVars, reqVars, parsedVars, status, publishCalls, pcH, idx, wg, mergedFreqLock,
                   response, jobs, wait, tmp, resultNext, deserErr>>

(* mergedFreqLock.Unlock() *)
Unlock(s) ==
    /\ task[s] = "unlock"
    /\ mergedFreqLock' = 0
    /\ task' = [task EXCEPT ![s] = "wgdone"]
    /\ UNCHANGED <<splitVars, auxVars, reqVars, parsedVars, status, publishCalls, pcH, idx, wg, result,
                   response, jobs, wait, tmp, resultNext, deserErr>>

\* (mutant: the slot released while the merge mutex is still held)
DoneBeforeUnlock(s) ==
    /\ task[s] = "unlock"
    /\ wg' = wg - 1
    /\ task' = [task EXCEPT ![s] = "end"]
    /\ UNCHANGED <<splitVars, auxVars, reqVars, parsedVars, status, publishCalls, pcH, idx, mergedFreqLock,
                   result, response, jobs, wait, tmp, resultNext, deserErr>>

(* wg.Done() *)
Done(s) ==
    /\ task[s] = "wgdone"
    /\ wg' = wg - 1
    /\ task' = [task EXCEPT ![s] = "end"]
    /\ UNCHANGED <<splitVars, auxVars, reqVars, parsedVars, status, publishCalls, pcH, idx, mergedFreqLock,
                   result, response, jobs, wait, tmp, resultNext, deserErr>>

\* a response written without waiting for the barrier
WaitFreqDistribEarly ==
    /\ pcH = "wait"
    /\ handler = "FreqDistribParallel"
    /\ response' = result.Freqs
    /\ status' = "StatusOK"
    /\ pcH' = "done"
    /\ UNCHANGED <<splitVars, auxVars, reqVars, parsedVars, publishCalls, idx, wg,
                   mergedFreqLock, result, jobs, wait, task, tmp, resultNext, deserErr>>

(* wg.Wait() returns; FreqDistribParallel writes the response *)
WaitFreqDistrib ==
    /\ pcH = "wait"
    /\ wg = 0
    /\ handler = "FreqDistribParallel"
    /\ response' = result.Freqs
    /\ status' = "StatusOK"
    /\ pcH' = "done"
    /\ UNCHANGED <<splitVars, auxVars, reqVars, parsedVars, publishCalls, idx, wg, mergedFreqLock,
                   result, jobs, wait, task, tmp, resultNext, deserErr>>

(* wg.Wait() returns; TextTypesParallel sorts the accumulator *)
WaitTextTypes ==
    /\ pcH = "wait"
    /\ wg = 0
    /\ handler = "TextTypesParallel"
    /\ result' = [Freqs |-> SliceStable(result.Freqs)]
    /\ pcH' = "cut"
    /\ UNCHANGED <<splitVars, auxVars, reqVars, parsedVars, status, publishCalls, idx, wg, mergedFreqLock,
                   response, jobs, wait, task, tmp, resultNext, deserErr>>

(* result.Freqs = result.Freqs[:cut]; WriteJSONResponse(ctx.Writer, result).  *)
(* The capacity of result.Freqs is whatever the appends of MergeWith left.    *)
Truncate ==
    /\ pcH = "cut"
    /\ \E capacity \in Len(result.Freqs)..MaxCapacity :
          IF SliceInRange(result.Freqs, Cut(maxItems), capacity)
          THEN /\ result' = [Freqs |-> SliceTo(result.Freqs, Cut(maxItems))]
               /\ response' = SliceTo(result.Freqs, Cut(maxItems))
               /\ status' = "StatusOK"
               /\ pcH' = "done"
          ELSE /\ pcH' = "panicked"
               /\ UNCHANGED <<result, response, status>>
    /\ UNCHANGED <<splitVars, auxVars, reqVars, parsedVars, publishCalls, idx, wg, mergedFreqLock,
                   jobs, wait, task, tmp, resultNext, deserErr>>

Next ==
    \/ OpenOk
    \/ OpenErr
    \/ ParseFlimit
    \/ ParseMaxItems
    \/ Begin
    \/ PublishOk
    \/ PublishFail
    \/ WaitFreqDistrib
    \/ WaitTextTypes
    \/ Truncate
    \/ \E s \in Shards : Resolve(s)
    \/ \E s \in Shards : Receive(s)
    \/ \E s \in Shards : Deserialize(s)
    \/ \E s \in Shards : Lock(s)
    \/ \E s \in Shards : Merge(s)
    \/ \E s \in Shards : Unlock(s)
    \/ \E s \in Shards : Done(s)

---------------------------------------------------------------------------
(* The single-shard query handlers Actions.FreqDistrib and Actions.TextTypes. *)
(* Their one job, future and envelope are kept at index 0 of jobs, wait, tmp, *)
(* resultNext and deserErr; SubcPath 0 is the empty path, the whole corpus.   *)

SingleHandlers == {"FreqDistrib", "TextTypes"}

(* json.Marshal(rdb.FreqDistribArgs{...}) of FreqDistrib *)
SingleFreqDistribArgs ==
    [Func |-> "freqDistrib", CorpusPath |-> "corpusPath", SubcPath |-> 0,
     Query |-> "q", Crit |-> "lemma/e 0~0>0", Limit |-> flimit, MaxResults |-> 0]

(* json.Marshal(freqArgs) of TextTypes *)
SingleTextTypesArgs ==
    [Func |-> "freqDistrib", CorpusPath |-> "corpusPath", SubcPath |-> 0,
     Query |-> "q", Crit |-> "attr 0", FreqLimit |-> flimit, MaxResults |-> 0]

SingleArgs ==
    IF handler = "FreqDistrib" THEN SingleFreqDistribArgs ELSE SingleTextTypesArgs

SingleInit ==
    /\ handler \in SingleHandlers
    /\ flimitArg \in FlimitArgs
    /\ maxItemsArg = Absent
    /\ flimit = 1
    /\ maxItems = 0
    /\ Subcorpora = <<>>
    /\ corp \in [{0} -> ShardDists]
    /\ jobs = [s \in {0} |-> NoJob]
    /\ wait = [s \in {0} |-> Future("none", NoEnvelope)]
    /\ task = [s \in {0} |-> "none"]
    /\ tmp = [s \in {0} |-> NoEnvelope]
    /\ resultNext = [s \in {0} |-> [Freqs |-> <<>>]]
    /\ deserErr = [s \in {0} |-> FALSE]
    /\ pcH = "flimit"
    /\ idx = 1
    /\ wg = 0
    /\ mergedFreqLock = 0
    /\ result = [Freqs |-> <<>>]
    /\ response = NoResponse
    /\ status = "none"
    /\ publishCalls = <<>>

\* what the steps of a single-shard handler leave alone
singleUnchanged == <<splitVars, auxVars, reqVars, parsedVars, idx, wg, mergedFreqLock,
                     result, task>>

(* wait, err := a.radapter.PublishQuery(...) with err == nil *)
PublishSingleOk ==
    /\ pcH = "publish"
    /\ jobs' = [jobs EXCEPT ![0] = SingleArgs]
    /\ wait' = [wait EXCEPT ![0] = Future("pending", NoEnvelope)]
    /\ publishCalls' = Append(publishCalls, [args |-> SingleArgs, ok |-> TRUE])
    /\ pcH' = "await"
    /\ UNCHANGED <<singleUnchanged, response, status, tmp, resultNext, deserErr>>

\* a handler that goes on to wait for the future of a refused publication
PublishSingleFailAwaits ==
    /\ pcH = "publish"
    /\ wait' = [wait EXCEPT ![0] = Future("pending", NoEnvelope)]
    /\ publishCalls' = Append(publishCalls, [args |-> SingleArgs, ok |-> FALSE])
    /\ pcH' = "await"
    /\ UNCHANGED <<singleUnchanged, response, status, jobs, tmp, resultNext, deserErr>>

(* PublishQuery returned an error: error response, return *)
PublishSingleFail ==
    /\ pcH = "publish"
    /\ publishCalls' = Append(publishCalls, [args |-> SingleArgs, ok |-> FALSE])
    /\ response' = ErrorResponse
    /\ status' = "StatusInternalServerError"
    /\ pcH' = "error"
    /\ UNCHANGED <<singleUnchanged, jobs, wait, tmp, resultNext, deserErr>>

(* A worker resolves the future of the published job *)
ResolveSingle ==
    /\ handler \in SingleHandlers
    /\ wait[0].state = "pending"
    /\ jobs[0] # NoJob
    /\ \E st \in EnvelopeStatus :
          wait' = [wait EXCEPT ![0] =
                      Future("resolved",
                             [status |-> st, payload |-> WorkerFreqDistrib(jobs[0])])]
    /\ UNCHANGED <<singleUnchanged, pcH, response, status, publishCalls, jobs, tmp,
                   resultNext, deserErr>>

(* rawResult := <-wait *)
ReceiveSingle ==
    /\ pcH = "await"
    /\ wait[0].state = "resolved"
    /\ tmp' = [tmp EXCEPT ![0] = wait[0].envelope]
    /\ wait' = [wait EXCEPT ![0] = Future("consumed", NoEnvelope)]
    /\ pcH' = "deser"
    /\ UNCHANGED <<singleUnchanged, response, status, publishCalls, jobs, resultNext,
                   deserErr>>

(* result, err := rdb.DeserializeXxxResult(rawResult); error response on err, *)
(* else uniresp.WriteJSONResponse(ctx.Writer, result)                         *)
DeserializeSingle ==
    /\ pcH = "deser"
    /\ \E d \in Deserialized(tmp[0]) :
          /\ resultNext' = [resultNext EXCEPT ![0] = d.value]
          /\ deserErr' = [deserErr EXCEPT ![0] = d.err]
          /\ IF d.err
             THEN /\ response' = ErrorResponse
                  /\ status' = "StatusInternalServerError"
                  /\ pcH' = "error"
             ELSE /\ response' = d.value.Freqs
                  /\ status' = "StatusOK"
                  /\ pcH' = "done"
    /\ UNCHANGED <<singleUnchanged, publishCalls, jobs, wait, tmp>>

SingleNext ==
    \/ ParseFlimit
    \/ PublishSingleOk
    \/ PublishSingleFail
    \/ ResolveSingle
    \/ ReceiveSingle
    \/ DeserializeSingle

\* all four query handlers
QueryNext ==
    \/ Next
    \/ PublishSingleOk
    \/ PublishSingleFail
    \/ ResolveSingle
    \/ ReceiveSingle
    \/ DeserializeSingle

---------------------------------------------------------------------------
(* splitCorpus and createSubcorpus *)

(* const maxSplitChunkSize *)
maxSplitChunkSize == 100000000

(* Bound: the largest number of whole chunks of the corpus sizes tried *)
MaxChunks == 11

(* The chunk sizes tried: Actions.SplitCorpus hands splitCorpus the          *)
(* configured MultiprocChunkSize; the constant is the one splitCorpus has    *)
(* built in.                                                                 *)
ChunkSizes == {1, 3, maxSplitChunkSize}

(* The corpus sizes tried for chunk size c: multiples of c, and the sizes    *)
(* one above and one below a multiple.                                       *)
CorpusSizes(c) == {k * c + d : k \in 0..MaxChunks, d \in {0, 1, c - 1}}

(* int(math.Ceil(float64(size) / float64(chunkSize))) *)
\* (mutant: the division truncated instead of rounded up)
NumChunksFloor(sz, c) == sz \div c
NumChunks(sz, c) == IF sz % c = 0 THEN sz \div c ELSE (sz \div c) + 1

(* fmt.Sprintf("%02d", i): the decimal digits of i, zero-padded to width 2 *)
Pad02(i) == IF Len(Decimal(i)) < 2 THEN <<"0">> \o Decimal(i) ELSE Decimal(i)

(* filepath.Join(subcBaseDir, cname, fmt.Sprintf("chunk_%02d.subc", i)),     *)
(* as the file's name within the corpus' shard directory                     *)
ChunkPath(i) == <<"chunk_">> \o Pad02(i) \o <<".subc">>

(* the "" a fresh make([]string, numChunks) holds *)
EmptyPath == <<>>

(* binary.LittleEndian.PutUint64 / AppendUint64 of a non-negative value *)
RECURSIVE LEBytes(_, _)
LEBytes(v, n) ==
    IF n = 0 THEN <<>> ELSE <<v % 256>> \o LEBytes(v \div 256, n - 1)

PutUint64(v) == LEBytes(v, 8)

(* bytesBuffer of createSubcorpus *)
\* (mutant: the two fields in the other order)
SubcorpusBytesToFirst(fromIdx, toIdx) == PutUint64(toIdx) \o PutUint64(fromIdx)
SubcorpusBytes(fromIdx, toIdx) == PutUint64(fromIdx) \o PutUint64(toIdx)

(* file.Write on a file opened O_WRONLY|O_CREATE (no O_TRUNC): the bytes     *)
(* replace the start of what the file held.                                  *)
WriteAtStart(old, bytes) ==
    bytes \o SubSeq(old, Len(bytes) + 1, Len(old))

FileContent(path) == IF path \in DOMAIN files THEN files[path] ELSE <<>>

(* The chunk bounds splitCorpus hands createSubcorpus *)
ChunkFrom(i, c) == i * c
\* (mutant: an inclusive upper bound)
ChunkToInclusive(i, c) == ((i + 1) * c) - 1
ChunkTo(i, c) == (i + 1) * c

SplitIdle ==
    /\ pcS = "idle"
    /\ chunkSize = 1
    /\ corpusSize = 0
    /\ size = 0
    /\ numChunks = 0
    /\ chunkIdx = 0
    /\ ans = <<>>
    /\ dirExists = FALSE
    /\ files = <<>>

SplitInit ==
    /\ pcS = "call"
    /\ chunkSize \in ChunkSizes
    /\ corpusSize \in CorpusSizes(chunkSize)
    /\ size = 0
    /\ numChunks = 0
    /\ chunkIdx = 0
    /\ ans = <<>>
    /\ dirExists \in BOOLEAN
    /\ files = <<>>

(* size, err := mango.GetCorpusSize(corpusPath); numChunks := ...;           *)
(* ans.Subcorpora = make([]string, numChunks)                                *)
GetCorpusSizeOk ==
    /\ pcS = "call"
    /\ size' = corpusSize
    /\ numChunks' = NumChunks(corpusSize, chunkSize)
    /\ ans' = [i \in 1..NumChunks(corpusSize, chunkSize) |-> EmptyPath]
    /\ pcS' = "isdir"
    /\ UNCHANGED <<gatherVars, auxVars, chunkSize, corpusSize, chunkIdx, dirExists, files>>

GetCorpusSizeErr ==
    /\ pcS = "call"
    /\ pcS' = "error"
    /\ UNCHANGED <<gatherVars, auxVars, chunkSize, corpusSize, size, numChunks, chunkIdx, ans,
                   dirExists, files>>

(* cdirExists, err := fs.IsDir(corpDir); if !cdirExists { os.Mkdir(...) }:   *)
(* the result of Mkdir is not looked at                                      *)
IsDirOk ==
    /\ pcS = "isdir"
    /\ dirExists' \in (IF dirExists THEN {TRUE} ELSE BOOLEAN)
    /\ chunkIdx' = 0
    /\ pcS' = "chunks"
    /\ UNCHANGED <<gatherVars, auxVars, chunkSize, corpusSize, size, numChunks, ans, files>>

IsDirErr ==
    /\ pcS = "isdir"
    /\ pcS' = "error"
    /\ UNCHANGED <<gatherVars, auxVars, chunkSize, corpusSize, size, numChunks, chunkIdx, ans,
                   dirExists, files>>

(* createSubcorpus succeeded; ans.Subcorpora[i] = path *)
CreateSubcorpusOk ==
    /\ pcS = "chunks"
    /\ chunkIdx < numChunks
    /\ dirExists
    /\ LET path == ChunkPath(chunkIdx) IN
          /\ files' = (path :> WriteAtStart(FileContent(path),
                                   SubcorpusBytes(ChunkFrom(chunkIdx, chunkSize),
                                                  ChunkTo(chunkIdx, chunkSize))))
                      @@ files
          /\ ans' = [ans EXCEPT ![chunkIdx + 1] = path]
    /\ chunkIdx' = chunkIdx + 1
    /\ UNCHANGED <<gatherVars, auxVars, pcS, chunkSize, corpusSize, size, numChunks, dirExists>>

(* createSubcorpus failed: in os.OpenFile (no file), or in file.Write (the   *)
(* file is there, nothing written)                                           *)
CreateSubcorpusErr ==
    /\ pcS = "chunks"
    /\ chunkIdx < numChunks
    /\ \E opened \in (IF dirExists THEN BOOLEAN ELSE {FALSE}) :
          files' = IF opened
                   THEN (ChunkPath(chunkIdx) :> FileContent(ChunkPath(chunkIdx))) @@ files
                   ELSE files
    /\ pcS' = "error"
    /\ UNCHANGED <<gatherVars, auxVars, chunkSize, corpusSize, size, numChunks, chunkIdx, ans,
                   dirExists>>

(* return ans, nil *)
SplitReturn ==
    /\ pcS = "chunks"
    /\ chunkIdx = numChunks
    /\ pcS' = "ok"
    /\ UNCHANGED <<gatherVars, auxVars, chunkSize, corpusSize, size, numChunks, chunkIdx, ans,
                   dirExists, files>>

SplitNext ==
    \/ GetCorpusSizeOk
    \/ GetCorpusSizeErr
    \/ IsDirOk
    \/ IsDirErr
    \/ CreateSubcorpusOk
    \/ CreateSubcorpusErr
    \/ SplitReturn

---------------------------------------------------------------------------
(* createSubcorpus(path, fromIdx, toIdx) called on its own, on the path of   *)
(* chunk 0: on a path that does not exist yet, or on one that holds a        *)
(* longer file.                                                              *)

(* The offsets tried: around the byte boundaries of the encoding, up to the  *)
(* largest value the checker's integers hold.                                *)
OffsetValues == {0, 1, 255, 256, 257, 65535, 65536, 16777215, 16777216,
                 maxSplitChunkSize, 2147483647}

(* A file of 17 bytes already at the path *)
LongerFile == [i \in 1..17 |-> 170]

CreateIdle ==
    /\ fromIdxArg = 0
    /\ toIdxArg = 0

CreateInit ==
    /\ pcS = "create"
    /\ fromIdxArg \in OffsetValues
    /\ toIdxArg \in { v \in OffsetValues : fromIdxArg <= v }
    /\ chunkSize = 1 /\ corpusSize = 0 /\ size = 0 /\ numChunks = 0 /\ chunkIdx = 0
    /\ ans = <<>>
    /\ dirExists = TRUE
    /\ files \in {<<>>, ChunkPath(0) :> LongerFile}

createFrame == <<gatherVars, mergeVars, concVars, editVars, createVars, nameVars, raceVars,
                 dbVars, tableVars, chunkSize,
                 corpusSize, size, numChunks, chunkIdx, ans, dirExists>>

(* file, err := os.OpenFile(path, os.O_WRONLY|os.O_CREATE, 0644) failed *)
OpenFileErr ==
    /\ pcS = "create"
    /\ pcS' = "error"
    /\ UNCHANGED <<createFrame, files>>

(* the file is open; _, err = file.Write(bytesBuffer) wrote all 16 bytes *)
WriteOk ==
    /\ pcS = "create"
    /\ files' = (ChunkPath(0) :> WriteAtStart(FileContent(ChunkPath(0)),
                                              SubcorpusBytes(fromIdxArg, toIdxArg)))
                 @@ files
    /\ pcS' = "created"
    /\ UNCHANGED createFrame

(* the file is open; file.Write failed after n < 16 bytes *)
WriteErr ==
    /\ pcS = "create"
    /\ \E n \in {0, 8, 15} :
          files' = (ChunkPath(0) :> WriteAtStart(FileContent(ChunkPath(0)),
                                      SubSeq(SubcorpusBytes(fromIdxArg, toIdxArg), 1, n)))
                   @@ files
    /\ pcS' = "error"
    /\ UNCHANGED createFrame

CreateNext ==
    \/ OpenFileErr
    \/ WriteOk
    \/ WriteErr

---------------------------------------------------------------------------
(* The names splitCorpus gives the descriptor files, in the order of        *)
(* strings: the order os.ReadDir lists a directory in.                      *)

(* Bound: the largest chunk index whose file name is compared *)
MaxChunkIndex == 100

(* The first byte of each piece a name is made of *)
FirstByte(piece) ==
    CASE piece = ".subc" -> 46
      [] piece = "chunk_" -> 99
      [] OTHER -> 48 + DigitValue(piece)

(* a < b for Go strings: byte by byte, a proper prefix first *)
RECURSIVE StringLess(_, _)
StringLess(a, b) ==
    IF b = <<>> THEN FALSE
    ELSE IF a = <<>> THEN TRUE
    ELSE IF FirstByte(Head(a)) # FirstByte(Head(b))
         THEN FirstByte(Head(a)) < FirstByte(Head(b))
         ELSE StringLess(Tail(a), Tail(b))

NameIdle ==
    /\ chunkA = 0
    /\ chunkB = 0
    /\ lexOrder = "none"

NameInit ==
    /\ chunkA \in 0..MaxChunkIndex
    /\ chunkB \in 0..MaxChunkIndex
    /\ lexOrder = "none"

(* the names fmt.Sprintf("chunk_%02d.subc", i) of the two chunks, compared *)
CompareNames ==
    /\ lexOrder = "none"
    /\ lexOrder' = IF StringLess(ChunkPath(chunkA), ChunkPath(chunkB)) THEN "less"
                   ELSE IF StringLess(ChunkPath(chunkB), ChunkPath(chunkA)) THEN "greater"
                   ELSE "equal"
    /\ UNCHANGED <<gatherVars, splitVars, mergeVars, concVars, editVars, createVars,
                   raceVars, dbVars, tableVars, chunkA, chunkB>>

NameNext == CompareNames

---------------------------------------------------------------------------
(* The edit handlers Actions.SplitCorpus, Actions.MultiSample and           *)
(* Actions.CollFreqData. They use the variables of a request handler (pcH,  *)
(* idx, wg, Subcorpora, jobs, wait, task, tmp, publishCalls, response,      *)
(* status) and, for SplitCorpus, call splitCorpus above. One unit of work   *)
(* is one pass through the body of the publishing loop.                     *)

EditHandlers == {"SplitCorpus", "MultiSample", "CollFreqData"}

\* corpus sizes that make 0 .. MaxShards chunks
EditCorpusSizes(c) == { k * c : k \in 0..MaxShards } \cup { (MaxShards - 1) * c + 1 }

\* a descriptor left by an earlier split, and the directory that holds it
OldBytes == SubcorpusBytes(0, 7)
ExistingShardSet == ChunkPath(0) :> OldBytes

\* filepath of the i-th sample of a multisampled corpus
SamplePath(i) == <<"sample_">> \o Pad02(i) \o <<".subc">>

\* an existence check that never finds a shard set
ShardSetExistsNever == FALSE

(* splitCorpusExists: the directory is there and has at least one entry *)
ShardSetExists == dirExists /\ DOMAIN files # {}

\* the units of the publishing loop and their job arguments
NumUnits(subcorpora) ==
    IF handler = "CollFreqData" THEN 2 * Len(subcorpora) ELSE Len(subcorpora)

UnitSubc(k) ==
    IF handler = "CollFreqData" THEN Subcorpora[(k + 1) \div 2] ELSE Subcorpora[k]

UnitAttrs(k) ==
    IF handler # "CollFreqData" THEN <<"word", "lemma">>
    ELSE IF k % 2 = 1 THEN <<"word">> ELSE <<"lemma">>

(* json.Marshal(rdb.CalcCollFreqDataArgs{...}) *)
CalcCollFreqDataArgs(k) ==
    [Func |-> "calcCollFreqData", CorpusPath |-> "corpPath", SubcPath |-> UnitSubc(k),
     Attrs |-> UnitAttrs(k)]

Units == DOMAIN task

EditIdle ==
    /\ variant = "split"
    /\ numSamplesArg = Absent
    /\ numSamples = 0
    /\ dataCheck = <<>>

EditInit ==
    /\ handler \in EditHandlers
    /\ variant \in (IF handler = "CollFreqData" THEN {"split", "multisampled", "other"}
                    ELSE IF handler = "SplitCorpus" THEN {"split"} ELSE {"multisampled"})
    /\ numSamplesArg \in (IF handler = "MultiSample"
                          THEN { Decimal(i) : i \in 1..MaxShards } \cup { <<"x">> }
                          ELSE {Absent})
    /\ numSamples = 0
    /\ dataCheck = <<>>
    /\ flimitArg = Absent /\ maxItemsArg = Absent /\ flimit = 1 /\ maxItems = 0
    /\ Subcorpora = <<>> /\ corp = <<>>
    /\ jobs = <<>> /\ wait = <<>> /\ task = <<>> /\ tmp = <<>>
    /\ resultNext = <<>> /\ deserErr = <<>>
    /\ pcH = "begin" /\ idx = 1 /\ wg = 0 /\ mergedFreqLock = 0
    /\ result = [Freqs |-> <<>>]
    /\ response = NoResponse /\ status = "none" /\ publishCalls = <<>>
    /\ pcS = "idle"
    /\ chunkSize \in (IF handler = "SplitCorpus" THEN ChunkSizes ELSE {1})
    /\ corpusSize \in (IF handler = "SplitCorpus" THEN EditCorpusSizes(chunkSize) ELSE {0})
    /\ size = 0 /\ numChunks = 0 /\ chunkIdx = 0 /\ ans = <<>>
    /\ \/ dirExists = FALSE /\ files = <<>>
       \/ handler # "CollFreqData" /\ dirExists = TRUE /\ files = <<>>
       \/ handler # "CollFreqData" /\ dirExists = TRUE /\ files = ExistingShardSet

\* what no step of an edit handler changes
editFrame == <<mergeVars, concVars, restVars, handler, variant, numSamplesArg, flimitArg, maxItemsArg,
               flimit, maxItems, corp, mergedFreqLock, result, resultNext, deserErr,
               chunkSize, corpusSize, size, numChunks, chunkIdx, ans>>

\* the body of the error "split corpus already exists" / "multisampled ..."
AlreadyExists == <<"error", "corpus already exists">>

\* the response of uniresp.WriteJSONErrorResponse(..., http.StatusConflict)
RespondConflict ==
    /\ response' = ErrorResponse
    /\ status' = "StatusConflict"
    /\ pcH' = "error"

\* wg.Add(len(corp.Subcorpora)) and the start of the loop over them
StartLoop(subcorpora, add) ==
    /\ Subcorpora' = subcorpora
    /\ wg' = wg + add
    /\ jobs' = [k \in 1..NumUnits(subcorpora) |-> NoJob]
    /\ wait' = [k \in 1..NumUnits(subcorpora) |-> Future("none", NoEnvelope)]
    /\ task' = [k \in 1..NumUnits(subcorpora) |-> "none"]
    /\ tmp' = [k \in 1..NumUnits(subcorpora) |-> NoEnvelope]
    /\ dataCheck' = [k \in 1..NumUnits(subcorpora) |-> "none"]
    /\ idx' = 1
    /\ pcH' = IF NumUnits(subcorpora) = 0 THEN "wait" ELSE "loop"

(* exists, err := SplitCorpusExists(...) / MultisampleCorpusExists(...)     *)
(* returned an error                                                        *)
ExistsErr ==
    /\ pcH = "begin"
    /\ handler \in {"SplitCorpus", "MultiSample"}
    /\ RespondConflict
    /\ UNCHANGED <<editFrame, Subcorpora, idx, wg, publishCalls, jobs, wait, task, tmp,
                   numSamples, dataCheck, pcS, dirExists, files>>

(* if exists { error response "... corpus already exists"; return } *)
ExistsTrue ==
    /\ pcH = "begin"
    /\ handler \in {"SplitCorpus", "MultiSample"}
    /\ ShardSetExists
    /\ response' = AlreadyExists
    /\ status' = "StatusConflict"
    /\ pcH' = "error"
    /\ UNCHANGED <<editFrame, Subcorpora, idx, wg, publishCalls, jobs, wait, task, tmp,
                   numSamples, dataCheck, pcS, dirExists, files>>

(* exists is false: SplitCorpus calls splitCorpus, MultiSample goes on to   *)
(* read numSamples                                                          *)
ExistsFalse ==
    /\ pcH = "begin"
    /\ handler \in {"SplitCorpus", "MultiSample"}
    /\ ~ShardSetExists
    /\ IF handler = "SplitCorpus"
       THEN pcH' = "split" /\ pcS' = "call"
       ELSE pcH' = "numsamples" /\ pcS' = pcS
    /\ UNCHANGED <<editFrame, Subcorpora, idx, wg, response, status, publishCalls, jobs,
                   wait, task, tmp, numSamples, dataCheck, dirExists, files>>

(* corp, err := splitCorpus(...) returned an error *)
SplitFailed ==
    /\ pcH = "split"
    /\ pcS = "error"
    /\ RespondConflict
    /\ UNCHANGED <<editFrame, Subcorpora, idx, wg, publishCalls, jobs, wait, task, tmp,
                   numSamples, dataCheck, pcS, dirExists, files>>

(* corp, err := splitCorpus(...) returned corp; wg.Add(len(corp.Subcorpora)) *)
SplitDone ==
    /\ pcH = "split"
    /\ pcS = "ok"
    /\ StartLoop(ans, Len(ans))
    /\ UNCHANGED <<editFrame, response, status, publishCalls, numSamples, pcS, dirExists,
                   files>>

(* numSamples, ok := unireq.GetURLIntArgOrFail(ctx, "numSamples", ...) *)
ParseNumSamples ==
    /\ pcH = "numsamples"
    /\ numSamples' = Atoi(numSamplesArg).value
    /\ IF Atoi(numSamplesArg).err
       THEN /\ response' = ErrorResponse
            /\ status' = "argument error"
            /\ pcH' = "error"
       ELSE /\ pcH' = "multisample"
            /\ UNCHANGED <<response, status>>
    /\ UNCHANGED <<editFrame, Subcorpora, idx, wg, publishCalls, jobs, wait, task, tmp, dataCheck,
                   pcS, dirExists, files>>

(* corp, err := MultisampleCorpus(...) returned corp: numSamples descriptors *)
(* were written; wg.Add(len(corp.Subcorpora))                               *)
MultisampleDone ==
    /\ pcH = "multisample"
    /\ dirExists' = TRUE
    /\ files' = [p \in { SamplePath(i - 1) : i \in 1..numSamples } |-> OldBytes] @@ files
    /\ StartLoop([i \in 1..numSamples |-> SamplePath(i - 1)], numSamples)
    /\ UNCHANGED <<editFrame, response, status, publishCalls, numSamples, pcS>>

(* corp, err := MultisampleCorpus(...) returned an error *)
MultisampleFailed ==
    /\ pcH = "multisample"
    /\ RespondConflict
    /\ UNCHANGED <<editFrame, Subcorpora, idx, wg, publishCalls, jobs, wait, task, tmp,
                   numSamples, dataCheck, pcS, dirExists, files>>

(* CollFreqData: variant is neither "split" nor "multisampled" *)
VariantInvalid ==
    /\ pcH = "begin"
    /\ handler = "CollFreqData"
    /\ variant \notin {"split", "multisampled"}
    /\ response' = ErrorResponse
    /\ status' = "StatusUnprocessableEntity"
    /\ pcH' = "error"
    /\ UNCHANGED <<editFrame, Subcorpora, idx, wg, publishCalls, jobs, wait, task, tmp,
                   numSamples, dataCheck, pcS, dirExists, files>>

(* CollFreqData: corpus.OpenSplitCorpus / OpenMultisampledCorpus failed *)
OpenMulticorpErr ==
    /\ pcH = "begin"
    /\ handler = "CollFreqData"
    /\ variant \in {"split", "multisampled"}
    /\ RespondConflict
    /\ UNCHANGED <<editFrame, Subcorpora, idx, wg, publishCalls, jobs, wait, task, tmp,
                   numSamples, dataCheck, pcS, dirExists, files>>

(* CollFreqData: the shard set is open; wg := sync.WaitGroup{} *)
OpenMulticorpOk ==
    /\ pcH = "begin"
    /\ handler = "CollFreqData"
    /\ variant \in {"split", "multisampled"}
    /\ \E n \in 1..MaxShards :
          StartLoop([i \in 1..n |-> IF variant = "split" THEN ChunkPath(i - 1)
                                    ELSE SamplePath(i - 1)], 0)
    /\ UNCHANGED <<editFrame, response, status, publishCalls, numSamples, pcS, dirExists,
                   files>>

EditNextIteration ==
    /\ idx' = idx + 1
    /\ pcH' = IF idx = Len(task) THEN "wait" ELSE "loop"

\* (mutant: a unit that is passed over is counted on the barrier all the same)
UnitSkippedCounted ==
    /\ pcH = "loop"
    /\ handler = "CollFreqData"
    /\ \E answer \in {"exists", "error"} :
          dataCheck' = [dataCheck EXCEPT ![idx] = answer]
    /\ task' = [task EXCEPT ![idx] = "skipped"]
    /\ wg' = wg + 1
    /\ EditNextIteration
    /\ UNCHANGED <<editFrame, Subcorpora, response, status, publishCalls, jobs, wait,
                   tmp, numSamples, pcS, dirExists, files>>

(* CollFreqData: CollFreqDataExists returned an error (logged) or true:     *)
(* nothing is added to wg and nothing published for this unit               *)
UnitSkipped ==
    /\ pcH = "loop"
    /\ handler = "CollFreqData"
    /\ \E answer \in {"exists", "error"} :
          dataCheck' = [dataCheck EXCEPT ![idx] = answer]
    /\ task' = [task EXCEPT ![idx] = "skipped"]
    /\ EditNextIteration
    /\ UNCHANGED <<editFrame, Subcorpora, wg, response, status, publishCalls, jobs, wait,
                   tmp, numSamples, pcS, dirExists, files>>

\* CollFreqData goes on to publish where CollFreqDataExists returned
\* (false, nil); the other two handlers make no such check
CheckedMissing ==
    IF handler = "CollFreqData" THEN [dataCheck EXCEPT ![idx] = "missing"] ELSE dataCheck

\* CollFreqData adds the unit to wg just before it publishes
AddedInLoop == IF handler = "CollFreqData" THEN 1 ELSE 0

(* wait, err := PublishQuery(...) with err == nil; go func() {...}() *)
EditPublishOk ==
    /\ pcH = "loop"
    /\ dataCheck' = CheckedMissing
    /\ wg' = wg + AddedInLoop
    /\ jobs' = [jobs EXCEPT ![idx] = CalcCollFreqDataArgs(idx)]
    /\ publishCalls' = Append(publishCalls, [args |-> CalcCollFreqDataArgs(idx), ok |-> TRUE])
    /\ wait' = [wait EXCEPT ![idx] = Future("pending", NoEnvelope)]
    /\ task' = [task EXCEPT ![idx] = "await"]
    /\ EditNextIteration
    /\ UNCHANGED <<editFrame, Subcorpora, response, status, tmp, numSamples, pcS, dirExists,
                   files>>

(* wait, err := PublishQuery(...) with err != nil: err is not looked at and *)
(* the goroutine is started on a future that will not resolve               *)
EditPublishFail ==
    /\ pcH = "loop"
    /\ dataCheck' = CheckedMissing
    /\ wg' = wg + AddedInLoop
    /\ publishCalls' = Append(publishCalls, [args |-> CalcCollFreqDataArgs(idx), ok |-> FALSE])
    /\ wait' = [wait EXCEPT ![idx] = Future("never", NoEnvelope)]
    /\ task' = [task EXCEPT ![idx] = "await"]
    /\ EditNextIteration
    /\ UNCHANGED <<editFrame, Subcorpora, response, status, jobs, tmp, numSamples, pcS,
                   dirExists, files>>

(* A worker resolves the future of a published job *)
EditResolve(k) ==
    /\ wait[k].state = "pending"
    /\ \E st \in EnvelopeStatus :
          wait' = [wait EXCEPT ![k] = Future("resolved", [status |-> st, payload |-> <<>>])]
    /\ UNCHANGED <<editFrame, Subcorpora, pcH, idx, wg, response, status, publishCalls, jobs,
                   task, tmp, numSamples, dataCheck, pcS, dirExists, files>>

(* The goroutine of one unit: ans := <-wait;                                 *)
(* rdb.DeserializeCollFreqDataResult(ans), errors logged; wg.Done()         *)
EditDone(k) ==
    /\ task[k] = "await"
    /\ wait[k].state = "resolved"
    /\ wait' = [wait EXCEPT ![k] = Future("consumed", NoEnvelope)]
    /\ wg' = wg - 1
    /\ task' = [task EXCEPT ![k] = "end"]
    /\ UNCHANGED <<editFrame, Subcorpora, pcH, idx, response, status, publishCalls, jobs,
                   tmp, numSamples, dataCheck, pcS, dirExists, files>>

(* wg.Wait() returns; uniresp.WriteJSONResponse(ctx.Writer, corp) *)
EditWait ==
    /\ pcH = "wait"
    /\ wg = 0
    /\ response' = Subcorpora
    /\ status' = "StatusOK"
    /\ pcH' = "done"
    /\ UNCHANGED <<editFrame, Subcorpora, idx, wg, publishCalls, jobs, wait, task, tmp,
                   numSamples, dataCheck, pcS, dirExists, files>>

EditNext ==
    \/ ExistsErr
    \/ ExistsTrue
    \/ ExistsFalse
    \/ GetCorpusSizeOk
    \/ GetCorpusSizeErr
    \/ IsDirOk
    \/ IsDirErr
    \/ CreateSubcorpusOk
    \/ CreateSubcorpusErr
    \/ SplitReturn
    \/ SplitFailed
    \/ SplitDone
    \/ ParseNumSamples
    \/ MultisampleDone
    \/ MultisampleFailed
    \/ VariantInvalid
    \/ OpenMulticorpErr
    \/ OpenMulticorpOk
    \/ UnitSkipped
    \/ EditPublishOk
    \/ EditPublishFail
    \/ \E k \in Units : EditResolve(k)
    \/ \E k \in Units : EditDone(k)
    \/ EditWait

---------------------------------------------------------------------------
(* Two Actions.SplitCorpus requests for the same corpus, each in its own    *)
(* goroutine, from the existence check to the return of splitCorpus. They   *)
(* share the shard directory (dirExists, files); each has its own position  *)
(* and its own loop variable.                                               *)

Requests == {1, 2}

(* Bound: the largest number of chunks of the corpus the two requests split *)
MaxRaceChunks == 2

RaceIdle ==
    /\ rpc = <<>>
    /\ ri = <<>>
    /\ writers = <<>>

RaceInit ==
    /\ rpc = [r \in Requests |-> "exists"]
    /\ ri = [r \in Requests |-> 0]
    /\ writers = <<>>
    /\ pcS = "idle"
    /\ chunkSize \in ChunkSizes
    /\ corpusSize \in { k * chunkSize : k \in 1..MaxRaceChunks }
    /\ size = 0 /\ numChunks = 0 /\ chunkIdx = 0 /\ ans = <<>>
    /\ dirExists \in BOOLEAN
    /\ files = <<>>

raceFrame == <<gatherVars, mergeVars, concVars, editVars, createVars, nameVars, dbVars,
               tableVars,
               pcS, chunkSize, corpusSize, size, numChunks, chunkIdx, ans>>

WrittenBy(path) == IF path \in DOMAIN writers THEN writers[path] ELSE {}

(* exists, err := SplitCorpusExists(...) returned an error *)
RaceExistsErr(r) ==
    /\ rpc[r] = "exists"
    /\ rpc' = [rpc EXCEPT ![r] = "failed"]
    /\ UNCHANGED <<raceFrame, ri, writers, dirExists, files>>

(* if exists { ... http.StatusConflict; return } *)
RaceExistsTrue(r) ==
    /\ rpc[r] = "exists"
    /\ ShardSetExists
    /\ rpc' = [rpc EXCEPT ![r] = "refused"]
    /\ UNCHANGED <<raceFrame, ri, writers, dirExists, files>>

\* (mutant: the request goes on whatever the check found)
RaceExistsFalseAlways(r) ==
    /\ rpc[r] = "exists"
    /\ rpc' = [rpc EXCEPT ![r] = "size"]
    /\ UNCHANGED <<raceFrame, ri, writers, dirExists, files>>

(* exists is false: the request goes on to call splitCorpus *)
RaceExistsFalse(r) ==
    /\ rpc[r] = "exists"
    /\ ~ShardSetExists
    /\ rpc' = [rpc EXCEPT ![r] = "size"]
    /\ UNCHANGED <<raceFrame, ri, writers, dirExists, files>>

(* splitCorpus: size, err := mango.GetCorpusSize(corpusPath) *)
RaceGetCorpusSize(r) ==
    /\ rpc[r] = "size"
    /\ rpc' = [rpc EXCEPT ![r] = "isdir"]
    /\ UNCHANGED <<raceFrame, ri, writers, dirExists, files>>

(* splitCorpus: cdirExists, err := fs.IsDir(corpDir);                       *)
(* if !cdirExists { os.Mkdir(corpDir, 0755) }                               *)
RaceIsDir(r) ==
    /\ rpc[r] = "isdir"
    /\ dirExists' \in (IF dirExists THEN {TRUE} ELSE BOOLEAN)
    /\ rpc' = [rpc EXCEPT ![r] = "chunks"]
    /\ UNCHANGED <<raceFrame, ri, writers, files>>

(* splitCorpus: createSubcorpus(path, i*chunkSize, (i+1)*chunkSize) wrote   *)
(* the descriptor of chunk i                                                *)
RaceCreateSubcorpus(r) ==
    /\ rpc[r] = "chunks"
    /\ ri[r] < NumChunks(corpusSize, chunkSize)
    /\ dirExists
    /\ LET path == ChunkPath(ri[r]) IN
          /\ files' = (path :> WriteAtStart(FileContent(path),
                                   SubcorpusBytes(ChunkFrom(ri[r], chunkSize),
                                                  ChunkTo(ri[r], chunkSize))))
                      @@ files
          /\ writers' = (path :> (WrittenBy(path) \cup {r})) @@ writers
    /\ ri' = [ri EXCEPT ![r] = ri[r] + 1]
    /\ UNCHANGED <<raceFrame, rpc, dirExists>>

(* splitCorpus returned an error: from GetCorpusSize, from fs.IsDir, or     *)
(* from createSubcorpus before anything was written to the file             *)
RaceSplitErr(r) ==
    /\ \/ rpc[r] \in {"size", "isdir"}
       \/ rpc[r] = "chunks" /\ ri[r] < NumChunks(corpusSize, chunkSize)
    /\ rpc' = [rpc EXCEPT ![r] = "failed"]
    /\ UNCHANGED <<raceFrame, ri, writers, dirExists, files>>

(* splitCorpus: return ans, nil *)
RaceSplitReturn(r) ==
    /\ rpc[r] = "chunks"
    /\ ri[r] = NumChunks(corpusSize, chunkSize)
    /\ rpc' = [rpc EXCEPT ![r] = "split"]
    /\ UNCHANGED <<raceFrame, ri, writers, dirExists, files>>

RaceNext ==
    \/ \E r \in Requests : RaceExistsErr(r)
    \/ \E r \in Requests : RaceExistsTrue(r)
    \/ \E r \in Requests : RaceExistsFalse(r)
    \/ \E r \in Requests : RaceGetCorpusSize(r)
    \/ \E r \in Requests : RaceIsDir(r)
    \/ \E r \in Requests : RaceCreateSubcorpus(r)
    \/ \E r \in Requests : RaceSplitErr(r)
    \/ \E r \in Requests : RaceSplitReturn(r)

---------------------------------------------------------------------------
(* fcoll.runForDeprel: the parsed table is written to <corpusID>_fcolls.    *)
(* The sink is what a statement run on the pool (db.Exec) changes at once   *)
(* and what the statements of a transaction change when it commits; a       *)
(* statement that fails changes nothing. Rows are counted: the rows the     *)
(* table held before the call (old) and those the call inserted (new).      *)

(* const bulkInsertChunkSize *)
bulkInsertChunkSize == 500

(* Bound: the largest number of full batches the table fills *)
MaxBatches == 2

(* The rows of the sink before the call *)
RowsBefore == [old |-> 2, new |-> 0]

NoRows == [old |-> 0, new |-> 0]

(* the effect of one statement on the rows *)
Statement(stmt, rows) ==
    IF stmt.op = "DELETE" THEN NoRows
    ELSE [rows EXCEPT !.new = rows.new + stmt.rows]

(* the effect of the statements of a committed transaction, in order *)
RECURSIVE Statements(_, _)
Statements(log, rows) ==
    IF log = <<>> THEN rows ELSE Statements(Tail(log), Statement(Head(log), rows))

NoTx == [open |-> FALSE, log |-> <<>>]

DbIdle ==
    /\ pcD = "idle"
    /\ tableLen = 0
    /\ ranged = 0
    /\ batchLen = 0
    /\ sink = NoRows
    /\ tx = NoTx
    /\ dbRet = "none"

DbInit ==
    /\ pcD = "parse"
    /\ tableLen \in { k * bulkInsertChunkSize + d : k \in 0..MaxBatches, d \in {0, 1} }
    /\ ranged = 0
    /\ batchLen = 0
    /\ sink = RowsBefore
    /\ tx = NoTx
    /\ dbRet = "none"

dbFrame == <<gatherVars, splitVars, mergeVars, concVars, editVars, createVars, nameVars,
             raceVars, tableVars, tableLen>>

(* return err *)
ReturnErr(err) ==
    /\ dbRet' = err
    /\ pcD' = "returned"

(* err := vertigo.ParseVerticalFile(pc, proc) failed *)
ParseVerticalFileErr ==
    /\ pcD = "parse"
    /\ ReturnErr("parse error")
    /\ UNCHANGED <<dbFrame, ranged, batchLen, sink, tx>>

ParseVerticalFileOk ==
    /\ pcD = "parse"
    /\ pcD' = "begin"
    /\ UNCHANGED <<dbFrame, ranged, batchLen, sink, tx, dbRet>>

(* tx, err := db.Begin() *)
BeginErr ==
    /\ pcD = "begin"
    /\ ReturnErr("begin error")
    /\ UNCHANGED <<dbFrame, ranged, batchLen, sink, tx>>

BeginOk ==
    /\ pcD = "begin"
    /\ tx' = [open |-> TRUE, log |-> <<>>]
    /\ pcD' = "delete"
    /\ UNCHANGED <<dbFrame, ranged, batchLen, sink, dbRet>>

(* _, err = db.Exec("DELETE FROM ..._fcolls") failed: return err, the       *)
(* transaction is left as it is                                             *)
DeleteErr ==
    /\ pcD = "delete"
    /\ ReturnErr("delete error")
    /\ UNCHANGED <<dbFrame, ranged, batchLen, sink, tx>>

(* the DELETE ran: it was given to db, not to tx *)
DeleteOk ==
    /\ pcD = "delete"
    /\ sink' = Statement([op |-> "DELETE", rows |-> 0], sink)
    /\ pcD' = "loop"
    /\ UNCHANGED <<dbFrame, ranged, batchLen, tx, dbRet>>

(* one pass of `for _, v := range table` with i < bulkInsertChunkSize:      *)
(* args and valueStrings grow by the entry                                  *)
RangeAppend ==
    /\ pcD = "loop"
    /\ ranged < tableLen
    /\ batchLen < bulkInsertChunkSize
    /\ batchLen' = batchLen + 1
    /\ ranged' = ranged + 1
    /\ UNCHANGED <<dbFrame, pcD, sink, tx, dbRet>>

(* one pass with i == bulkInsertChunkSize: db.Exec(mkStmt(), args...) ran;  *)
(* the buffers are made anew and the entry appended                         *)
RangeFlushOk ==
    /\ pcD = "loop"
    /\ ranged < tableLen
    /\ batchLen = bulkInsertChunkSize
    /\ sink' = Statement([op |-> "INSERT", rows |-> batchLen], sink)
    /\ batchLen' = 1
    /\ ranged' = ranged + 1
    /\ UNCHANGED <<dbFrame, pcD, tx, dbRet>>

(* tx.Rollback(): the statements of the transaction are dropped *)
Rollback == tx' = NoTx

(* one pass with i == bulkInsertChunkSize: db.Exec failed;                  *)
(* tx.Rollback(); return err                                                *)
RangeFlushErr ==
    /\ pcD = "loop"
    /\ ranged < tableLen
    /\ batchLen = bulkInsertChunkSize
    /\ Rollback
    /\ ReturnErr("insert error")
    /\ UNCHANGED <<dbFrame, ranged, batchLen, sink>>

(* after the loop: if len(args) > 0 { db.Exec(mkStmt(), args...) } ran, or  *)
(* there was nothing left to insert                                         *)
LastExecOk ==
    /\ pcD = "loop"
    /\ ranged = tableLen
    /\ sink' = IF batchLen > 0
               THEN Statement([op |-> "INSERT", rows |-> batchLen], sink)
               ELSE sink
    /\ pcD' = "commit"
    /\ UNCHANGED <<dbFrame, ranged, batchLen, tx, dbRet>>

(* after the loop: db.Exec failed; tx.Rollback(); return err *)
LastExecErr ==
    /\ pcD = "loop"
    /\ ranged = tableLen
    /\ batchLen > 0
    /\ Rollback
    /\ ReturnErr("insert error")
    /\ UNCHANGED <<dbFrame, ranged, batchLen, sink>>

(* err = tx.Commit(); return err *)
CommitOk ==
    /\ pcD = "commit"
    /\ sink' = Statements(tx.log, sink)
    /\ tx' = NoTx
    /\ ReturnErr("nil")
    /\ UNCHANGED <<dbFrame, ranged, batchLen>>

CommitErr ==
    /\ pcD = "commit"
    /\ tx' = NoTx
    /\ ReturnErr("commit error")
    /\ UNCHANGED <<dbFrame, ranged, batchLen, sink>>

DbNext ==
    \/ ParseVerticalFileErr
    \/ ParseVerticalFileOk
    \/ BeginErr
    \/ BeginOk
    \/ DeleteErr
    \/ DeleteOk
    \/ RangeAppend
    \/ RangeFlushOk
    \/ RangeFlushErr
    \/ LastExecOk
    \/ LastExecErr
    \/ CommitOk
    \/ CommitErr

---------------------------------------------------------------------------
(* fcoll.CounterTable: a map from the key of a (lemma, upos, pLemma, pUpos, *)
(* deprel) tuple to its counter. Strings are sequences of characters.       *)

(* Bound: the largest number of Add calls *)
MaxAdds == 3

(* The values of the attributes tried: a lemma and a tag, with and without  *)
(* a colon.                                                                 *)
Lemmas == { <<"a">>, <<"a", ":">> }
Uposes == { <<"N">>, <<":", "N">> }
Deprels == { <<"n", "m", "o", "d">> }
PLemmas == { <<"b">> }
PUposes == { <<"N">> }

Tuples ==
    [lemma : Lemmas, upos : Uposes, pLemma : PLemmas, pUpos : PUposes, deprel : Deprels]

AddValues == {1, 2}

(* fmt.Sprintf("%s:%s:%s:%s:%s", lemma, upos, deprel, pLemma, pUpos) *)
mkKey(lemma, upos, pLemma, pUpos, deprel) ==
    lemma \o <<":">> \o upos \o <<":">> \o deprel \o <<":">> \o pLemma \o <<":">> \o pUpos

KeyOf(t) == mkKey(t.lemma, t.upos, t.pLemma, t.pUpos, t.deprel)

TableIdle ==
    /\ table = <<>>
    /\ adds = <<>>

(* make(CounterTable) *)
TableInit ==
    /\ table = <<>>
    /\ adds = <<>>

(* func (table CounterTable) Add(lemma, upos, pLemma, pUpos, deprel, val) *)
Add(t, val) ==
    /\ Len(adds) < MaxAdds
    /\ LET key == KeyOf(t)
           v == IF key \in DOMAIN table
                THEN table[key]
                ELSE [Lemma |-> t.lemma, Upos |-> t.upos, PLemma |-> t.pLemma,
                      PUpos |-> t.pUpos, Deprel |-> t.deprel, Freq |-> 0]
       IN  table' = (key :> [v EXCEPT !.Freq = v.Freq + val]) @@ table
    /\ adds' = Append(adds, [tuple |-> t, val |-> val])
    /\ UNCHANGED <<gatherVars, splitVars, mergeVars, concVars, editVars, createVars,
                   nameVars, raceVars, dbVars>>

TableNext == \E t \in Tuples, val \in AddValues : Add(t, val)

---------------------------------------------------------------------------
(* FreqDistrib.MergeWith on its own: operands folded in both groupings *)

\* Partial results of one kind; "Cat" and "cat" are different words.
MergeOperands ==
    { [Freqs |-> d] : d \in ShardDists } \cup
    { [Freqs |-> <<>>],
      [Freqs |-> << Item("cat", 1, 10), Item("bird", 4, 40) >>],
      [Freqs |-> << Item("Cat", 1, 10), Item("cat", 3, 30) >>] }

NoFolds == [ab |-> <<>>, ba |-> <<>>, ab_c |-> <<>>, a_bc |-> <<>>]

MergeIdle ==
    /\ pcM = "idle"
    /\ opA = [Freqs |-> <<>>]
    /\ opB = [Freqs |-> <<>>]
    /\ opC = [Freqs |-> <<>>]
    /\ folds = NoFolds

MergeInit ==
    /\ pcM = "input"
    /\ opA \in MergeOperands
    /\ opB \in MergeOperands
    /\ opC \in MergeOperands
    /\ folds = NoFolds

(* result.MergeWith(&resultNext), with each operand in turn as the receiver *)
FoldOperands ==
    /\ pcM = "input"
    /\ folds' = [ab   |-> MergeWith(opA, opB).Freqs,
                 ba   |-> MergeWith(opB, opA).Freqs,
                 ab_c |-> MergeWith(MergeWith(opA, opB), opC).Freqs,
                 a_bc |-> MergeWith(opA, MergeWith(opB, opC)).Freqs]
    /\ pcM' = "merged"
    /\ UNCHANGED <<othersOfMerge, opA, opB, opC>>

MergeNext == FoldOperands

---------------------------------------------------------------------------
(* mango.GetConcordance and mango.GetConcordanceWithCollPhrase *)

MaxErrorCode == 2

\* ErrRowsRangeOutOfConc = errors.New("rows range is out of concordance size")
ErrRowsRangeOutOfConc == [kind |-> "ErrRowsRangeOutOfConc", msg |-> <<>>]
NilError == [kind |-> "nil", msg |-> <<>>]

\* ans.err == nil
NoErrMsg == <<"<nil>">>

\* The engine's error messages, as characters.
EngineMessages ==
    { <<"e", "r", "r">>, <<"5", "0", "%">>, <<"%", "d">>, <<"%", "%">> }

(* fmt.Errorf(format) without operands: text is copied, "%%" gives "%", a   *)
(* verb gives "%!v(MISSING)" and a "%" at the end "%!(NOVERB)".             *)
RECURSIVE Errorf(_)
Errorf(format) ==
    IF format = <<>> THEN <<>>
    ELSE IF Head(format) # "%" THEN <<Head(format)>> \o Errorf(Tail(format))
    ELSE IF Tail(format) = <<>> THEN <<"%!(NOVERB)">>
    ELSE IF format[2] = "%" THEN <<"%">> \o Errorf(Tail(Tail(format)))
    ELSE <<"%!", format[2], "(MISSING)">> \o Errorf(Tail(Tail(format)))

\* the engine's lines; an empty one stands where the offset passed the end
EngineLines == { <<>>, <<"kwic">>, <<"", "kwic">> }

EngineAnswers ==
    [err : {NoErrMsg} \cup EngineMessages, errorCode : 0..MaxErrorCode,
     value : EngineLines]

NoAnswer == [err |-> NoErrMsg, errorCode |-> 0, value |-> <<>>]
NoReturn == [Lines |-> <<>>, err |-> NilError]

\* `if len(str) > 0 { ret.Lines = append(ret.Lines, str) }`
RECURSIVE NonEmptyLines(_)
NonEmptyLines(value) ==
    IF value = <<>> THEN <<>>
    ELSE IF Head(value) = "" THEN NonEmptyLines(Tail(value))
    ELSE <<Head(value)>> \o NonEmptyLines(Tail(value))

\* the explicit argument checks of GetConcordance
InvalidArgs ==
    /\ concFn = "GetConcordance"
    /\ \/ concArgs.fromLine < 0
       \/ concArgs.maxItems < 0
       \/ concArgs.maxContext < 0

ConcIdle ==
    /\ pcC = "idle"
    /\ concFn = "GetConcordance"
    /\ concArgs = [fromLine |-> 0, maxItems |-> 0, maxContext |-> 0]
    /\ engineAns = NoAnswer
    /\ concRet = NoReturn

ConcInit ==
    /\ pcC = "call"
    /\ concFn \in {"GetConcordance", "GetConcordanceWithCollPhrase"}
    /\ concArgs \in [fromLine : {-1, 0}, maxItems : {-1, 2}, maxContext : {-1, 0}]
    /\ engineAns = NoAnswer
    /\ concRet = NoReturn

(* panic("GetConcordance - invalid ... value") *)
PanicInvalidArgs ==
    /\ pcC = "call"
    /\ InvalidArgs
    /\ pcC' = "panicked"
    /\ UNCHANGED <<othersOfConc, concFn, concArgs, engineAns, concRet>>

(* ans := C.conc_examples(...) / C.conc_examples_with_coll_phrase(...) *)
CallEngine ==
    /\ pcC = "call"
    /\ ~InvalidArgs
    /\ engineAns' \in EngineAnswers
    /\ pcC' = "engine"
    /\ UNCHANGED <<othersOfConc, concFn, concArgs, concRet>>

(* ret.Lines = make([]string, 0, maxItems) with a negative capacity *)
PanicMakeLines ==
    /\ pcC = "engine"
    /\ concArgs.maxItems < 0
    /\ pcC' = "panicked"
    /\ UNCHANGED <<othersOfConc, concFn, concArgs, engineAns, concRet>>

(* if ans.err != nil { ...; return ret, ErrRowsRangeOutOfConc | err } *)
ReturnError ==
    /\ pcC = "engine"
    /\ concArgs.maxItems >= 0
    /\ engineAns.err # NoErrMsg
    /\ concRet' = [Lines |-> <<>>,
                   err |-> IF engineAns.errorCode = 1 THEN ErrRowsRangeOutOfConc
                           ELSE [kind |-> "generic", msg |-> Errorf(engineAns.err)]]
    /\ pcC' = "returned"
    /\ UNCHANGED <<othersOfConc, concFn, concArgs, engineAns>>

(* the lines are collected; return ret, nil *)
ReturnLines ==
    /\ pcC = "engine"
    /\ concArgs.maxItems >= 0
    /\ engineAns.err = NoErrMsg
    /\ concRet' = [Lines |-> NonEmptyLines(engineAns.value), err |-> NilError]
    /\ pcC' = "returned"
    /\ UNCHANGED <<othersOfConc, concFn, concArgs, engineAns>>

ConcNext ==
    \/ PanicInvalidArgs
    \/ CallEngine
    \/ PanicMakeLines
    \/ ReturnError
    \/ ReturnLines

---------------------------------------------------------------------------
(* The specifications *)

RestIdle == CreateIdle /\ NameIdle /\ RaceIdle /\ DbIdle /\ TableIdle

AuxIdle == MergeIdle /\ ConcIdle /\ EditIdle /\ RestIdle

SplitSpecInit == GatherIdle /\ SplitInit /\ AuxIdle

SplitSpec == SplitSpecInit /\ [][SplitNext]_vars

MergeSpecInit == GatherIdle /\ SplitIdle /\ MergeInit /\ ConcIdle /\ EditIdle /\ RestIdle

MergeSpec == MergeSpecInit /\ [][MergeNext]_vars

ConcSpecInit == GatherIdle /\ SplitIdle /\ MergeIdle /\ ConcInit /\ EditIdle /\ RestIdle

ConcSpec == ConcSpecInit /\ [][ConcNext]_vars

EditSpecInit == EditInit /\ MergeIdle /\ ConcIdle /\ RestIdle

CreateSpecInit ==
    /\ GatherIdle /\ MergeIdle /\ ConcIdle /\ EditIdle /\ NameIdle /\ RaceIdle /\ DbIdle
    /\ TableIdle
    /\ CreateInit

TableSpecInit ==
    /\ GatherIdle /\ SplitIdle /\ MergeIdle /\ ConcIdle /\ EditIdle /\ CreateIdle /\ NameIdle
    /\ RaceIdle /\ DbIdle
    /\ TableInit

TableSpec == TableSpecInit /\ [][TableNext]_vars

DbSpecInit ==
    /\ GatherIdle /\ SplitIdle /\ MergeIdle /\ ConcIdle /\ EditIdle /\ CreateIdle /\ NameIdle
    /\ RaceIdle /\ TableIdle
    /\ DbInit

DbSpec == DbSpecInit /\ [][DbNext]_vars

RaceSpecInit ==
    /\ GatherIdle /\ MergeIdle /\ ConcIdle /\ EditIdle /\ CreateIdle /\ NameIdle /\ DbIdle
    /\ TableIdle
    /\ RaceInit

RaceSpec == RaceSpecInit /\ [][RaceNext]_vars

NameSpecInit ==
    /\ GatherIdle /\ SplitIdle /\ MergeIdle /\ ConcIdle /\ EditIdle /\ CreateIdle /\ RaceIdle
    /\ DbIdle /\ TableIdle
    /\ NameInit

NameSpec == NameSpecInit /\ [][NameNext]_vars

CreateSpec == CreateSpecInit /\ [][CreateNext]_vars

EditSpec == EditSpecInit /\ [][EditNext]_vars

Init == GatherInit /\ SplitIdle /\ AuxIdle

SingleSpecInit == SingleInit /\ SplitIdle /\ AuxIdle

SingleSpec == SingleSpecInit /\ [][SingleNext]_vars

QueryInit == (GatherInit \/ SingleInit) /\ SplitIdle /\ AuxIdle

QuerySpec == QueryInit /\ [][QueryNext]_vars

Spec == Init /\ [][Next]_vars

---------------------------------------------------------------------------
(* Vocabulary of the properties *)

Min(a, b) == IF a < b THEN a ELSE b

Published(s) == task[s] \notin {"none", "pubfailed"}
PubFailed(s) == task[s] = "pubfailed"
SomePubFailed == \E s \in Shards : PubFailed(s)
LoopOver == pcH \in {"wait", "cut", "done", "panicked"}
HandlerFinished == pcH \in {"done", "error", "panicked"}

\* every shard was published, resolved with a good envelope, and has finished
AllShardsOk == \A s \in Shards : task[s] = "end" /\ tmp[s].status = "ok"

FreqOf(freqs, w) ==
    IF IndexOfWord(freqs, w) = 0 THEN 0 ELSE freqs[IndexOfWord(freqs, w)].freq

NormOf(freqs, w) ==
    IF IndexOfWord(freqs, w) = 0 THEN 0 ELSE freqs[IndexOfWord(freqs, w)].norm

\* the sum of w's freq over the distributions F[1..n]
RECURSIVE TotalFreq(_, _, _)
TotalFreq(w, n, F) ==
    IF n = 0 THEN 0 ELSE FreqOf(F[n], w) + TotalFreq(w, n - 1, F)

\* what the published shards' workers returned (nothing for the others)
PublishedPartials ==
    [s \in Shards |-> IF Published(s) THEN WorkerFreqDistrib(jobs[s]) ELSE <<>>]

HasNil(freqs) == \E i \in 1..Len(freqs) : freqs[i] = NilItem

\* the shards' partial results merged in the order of sc.Subcorpora
RECURSIVE MergedInShardOrder(_)
MergedInShardOrder(n) ==
    IF n = 0 THEN <<>>
    ELSE MergeFreqs(MergedInShardOrder(n - 1),
                    WorkerFreqDistrib(JobArgs(Subcorpora[n])))

\* the response when the shards complete in the order of sc.Subcorpora
ResponseInShardOrder ==
    LET merged == MergedInShardOrder(Len(Subcorpora))
        sorted == SliceStable(merged)
    IN  IF handler = "FreqDistribParallel" THEN merged
        ELSE SubSeq(sorted, 1, Min(Len(sorted), Cut(maxItems)))

\* b holds a's items ordered by freq descending, equal freqs in a's order
IsStableSortOf(b, a) ==
    /\ Len(b) = Len(a)
    /\ \A i \in 1..(Len(b) - 1) : b[i].freq >= b[i + 1].freq
    /\ \A f \in {a[i].freq : i \in 1..Len(a)} \cup {b[i].freq : i \in 1..Len(b)} :
          LET HasFreq(x) == x.freq = f IN SelectSeq(b, HasFreq) = SelectSeq(a, HasFreq)

\* a little-endian unsigned integer read back from bytes
RECURSIVE Uint64(_)
Uint64(b) == IF b = <<>> THEN 0 ELSE Head(b) + 256 * Uint64(Tail(b))

\* the descriptor a reader finds in the file of chunk i (1-based position in ans)
DescFrom(i) == Uint64(SubSeq(FileContent(ans[i]), 1, 8))
DescTo(i) == Uint64(SubSeq(FileContent(ans[i]), 9, 16))

---------------------------------------------------------------------------
(* C1: whatever publications fail, the handler gets past wg.Wait and        *)
(* answers once the published jobs' futures have resolved: the system never *)
(* comes to rest with the handler unfinished.                               *)
C1_BarrierPassed == HandlerFinished \/ ENABLED Next

(* C2: when some publications failed and every published shard has          *)
(* finished, the barrier is open (the request is answered, not lost), and   *)
(* the answer of FreqDistribParallel holds, for every word, exactly the sum *)
(* of the published shards' partial results.                                *)
C2_FailedShardContributesNothing ==
    (SomePubFailed /\ LoopOver /\ \A s \in Shards : task[s] \in {"pubfailed", "end"})
    => /\ wg = 0
       /\ (pcH = "done" /\ handler = "FreqDistribParallel"
              /\ (\A s \in Shards : Published(s) => tmp[s].status = "ok"))
          => \A w \in Words :
                FreqOf(response, w) = TotalFreq(w, Len(Subcorpora), PublishedPartials)

(* C3: the merge step of a shard whose envelope did not decode, or carries  *)
(* a worker error, leaves the accumulator as it was.                        *)
C3_BadShardSkipped ==
    [][\A s \in Shards :
          (task[s] = "merge" /\ task'[s] = "unlock"
              /\ (deserErr[s] \/ tmp[s].status # "ok"))
          => result' = result]_vars

(* C4: with every shard published and resolved well, the response is the    *)
(* one obtained when the shards complete in the order of the shard set,     *)
(* whatever order they completed in.                                        *)
C4_OrderIndependent ==
    (pcH = "done" /\ AllShardsOk /\ ~HasNil(response))
    => response = ResponseInShardOrder

(* C5: in TextTypesParallel, truncating an accumulator shorter than the cap *)
(* answers exactly the merged items and does not panic.                     *)
C5_TruncateShorterNoop ==
    [][(pcH = "cut" /\ Len(result.Freqs) < Cut(maxItems))
          => (pcH' = "done" /\ response' = result.Freqs)]_vars

(* C6: TextTypesParallel orders the merged items by freq descending, equal  *)
(* freqs in insertion order, and answers the first min(n, cap) of them.     *)
C6_SortedTopItems ==
    [][/\ (pcH = "wait" /\ pcH' = "cut")
            => IsStableSortOf(result'.Freqs, result.Freqs)
       /\ (pcH = "cut")
            => /\ pcH' = "done"
               /\ response' = SubSeq(result.Freqs, 1,
                                     Min(Len(result.Freqs), Cut(maxItems)))]_vars

(* C7: the response of TextTypesParallel holds the top-cap words of the     *)
(* merge of the shards' complete distributions, each with its total freq.   *)
C7_CapAfterMerge ==
    (handler = "TextTypesParallel" /\ pcH = "done" /\ AllShardsOk /\ ~HasNil(response))
    => LET n == Len(Subcorpora)
           present == {w \in Words : TotalFreq(w, n, corp) > 0}
           answered == {response[i].word : i \in 1..Len(response)}
       IN  /\ Len(response) = Min(Cardinality(present), Cut(maxItems))
           /\ \A i \in 1..Len(response) :
                 response[i].freq = TotalFreq(response[i].word, n, corp)
           /\ \A w \in present \ answered : \A i \in 1..Len(response) :
                 TotalFreq(w, n, corp) <= response[i].freq

(* C8: a successful splitCorpus leaves exactly ceil(S/C) descriptors, the   *)
(* i-th holding [i*C, (i+1)*C): contiguous, starting at 0, covering [0, S), *)
(* only the last one's end possibly beyond S.                               *)
C8_SplitChunks ==
    (pcS = "ok")
    => LET n == Len(ans) IN
       /\ (n - 1) * chunkSize < corpusSize \/ n = 0
       /\ corpusSize <= n * chunkSize
       /\ Cardinality(DOMAIN files) = n
       /\ \A i \in 1..n :
             /\ ans[i] \in DOMAIN files
             /\ Len(files[ans[i]]) = 16
             /\ DescFrom(i) = (i - 1) * chunkSize
             /\ DescTo(i) = i * chunkSize
       /\ \A i \in 1..(n - 1) : DescTo(i) = DescFrom(i + 1) /\ DescTo(i) < corpusSize
       /\ n > 0 => (DescFrom(1) = 0 /\ DescTo(n) >= corpusSize)

C8_Witness ==
    pcS = "ok" /\ Len(ans) >= 3 /\ corpusSize % chunkSize = 1 /\ chunkSize > 1

(* C9: the shard set of a successful splitCorpus is not empty and its paths *)
(* are pairwise distinct.                                                   *)
C9_ShardSetNonEmpty ==
    (pcS = "ok")
    => /\ Len(ans) > 0
       /\ \A i, j \in 1..Len(ans) : i # j => ans[i] # ans[j]

(* C10 as stated: the ranges are ordered, disjoint, start at 0 and end      *)
(* exactly at corpusSize.                                                   *)
C10_ExactPartition ==
    (pcS = "ok")
    => LET n == Len(ans) IN
       /\ \A i \in 1..n : DescFrom(i) < DescTo(i)
       /\ \A i, j \in 1..n : i < j => DescTo(i) <= DescFrom(j)
       /\ n > 0 => (DescFrom(1) = 0 /\ DescTo(n) = corpusSize)
       /\ n = 0 => corpusSize = 0

(* C10 amended: the ranges are ordered, disjoint and start at 0; the last   *)
(* one ends at the first multiple of the chunk size that is >= corpusSize,  *)
(* which is corpusSize only when corpusSize is a multiple of the chunk size.*)
C10_PartitionUpToLastChunk ==
    (pcS = "ok")
    => LET n == Len(ans) IN
       /\ \A i \in 1..n : DescFrom(i) < DescTo(i)
       /\ \A i, j \in 1..n : i < j => DescTo(i) <= DescFrom(j)
       /\ n > 0 => /\ DescFrom(1) = 0
                   /\ DescTo(n) >= corpusSize
                   /\ DescTo(n) - corpusSize < chunkSize
                   /\ DescTo(n) % chunkSize = 0
                   /\ (DescTo(n) = corpusSize) <=> (corpusSize % chunkSize = 0)
       /\ n = 0 => corpusSize = 0

C10_Witness ==
    /\ pcS = "ok"
    /\ Len(ans) >= 2
    /\ corpusSize % chunkSize # 0
    /\ DescTo(Len(ans)) > corpusSize

---------------------------------------------------------------------------
ItemSet(freqs) == { freqs[i] : i \in 1..Len(freqs) }
WordsOf(freqs) == { freqs[i].word : i \in 1..Len(freqs) }

(* C15: merging two frequency results gives the union of their items by     *)
(* word (exact, case-sensitive match), one item per word, with freq and     *)
(* norm summed for equal words, and the set of merged items is the same     *)
(* whichever operand is the receiver.                                       *)
C15_MergeUnionCommutes ==
    pcM = "merged" =>
        /\ WordsOf(folds.ab) = WordsOf(opA.Freqs) \cup WordsOf(opB.Freqs)
        /\ Cardinality(WordsOf(folds.ab)) = Len(folds.ab)
        /\ \A w \in WordsOf(folds.ab) :
              /\ FreqOf(folds.ab, w) = FreqOf(opA.Freqs, w) + FreqOf(opB.Freqs, w)
              /\ NormOf(folds.ab, w) = NormOf(opA.Freqs, w) + NormOf(opB.Freqs, w)
        /\ ItemSet(folds.ab) = ItemSet(folds.ba)

\* {(cat,5),(dog,2)} merged with {(cat,1),(bird,4)}
C15_Witness ==
    /\ pcM = "merged"
    /\ opA.Freqs = << Item("cat", 5, 50), Item("dog", 2, 20) >>
    /\ opB.Freqs = << Item("cat", 1, 10), Item("bird", 4, 40) >>
    /\ ItemSet(folds.ab) = { Item("cat", 6, 60), Item("dog", 2, 20), Item("bird", 4, 40) }
    /\ ItemSet(folds.ba) = { Item("cat", 6, 60), Item("dog", 2, 20), Item("bird", 4, 40) }

(* C16: folding three partial results into the accumulator gives the same   *)
(* value, items in the same order, as Merge(Merge(a,b),c) and as            *)
(* Merge(a,Merge(b,c)).                                                     *)
C16_MergeAssociative ==
    pcM = "merged" => folds.ab_c = folds.a_bc

\* three different operands that all hold "cat" and bring three words in all
C16_Witness ==
    /\ pcM = "merged"
    /\ opA # opB /\ opB # opC /\ opA # opC
    /\ \A o \in {opA, opB, opC} : "cat" \in WordsOf(o.Freqs)
    /\ Len(folds.ab_c) = 3
    /\ folds.ab_c = folds.a_bc
    /\ FreqOf(folds.ab_c, "cat") = 7

(* C14: when the engine reports an error, GetConcordance and                *)
(* GetConcordanceWithCollPhrase return no lines; with error code 1 the      *)
(* returned error is exactly ErrRowsRangeOutOfConc, with any other code it  *)
(* is a generic error that carries the engine's message and is not          *)
(* ErrRowsRangeOutOfConc.                                                   *)
C14_ErrorCodeMapping ==
    (pcC = "returned" /\ engineAns.err # NoErrMsg) =>
        /\ concRet.Lines = <<>>
        /\ engineAns.errorCode = 1 => concRet.err = ErrRowsRangeOutOfConc
        /\ engineAns.errorCode # 1 =>
              /\ concRet.err.kind = "generic"
              /\ concRet.err.msg = engineAns.err
              /\ concRet.err # ErrRowsRangeOutOfConc

---------------------------------------------------------------------------
PublishRefused == publishCalls # <<>> /\ ~publishCalls[1].ok

MalformedGiven ==
    \/ flimitArg \in MalformedArgs
    \/ handler = "TextTypesParallel" /\ maxItemsArg \in MalformedArgs

InPrelude == pcH \in {"open", "flimit", "maxitems"}

(* C13 (as claimed): in all four query handlers a request with a malformed  *)
(* flimit (or maxItems, in TextTypesParallel) publishes no job and ends     *)
(* with a validation error.                                                 *)
C13_MalformedRejected ==
    MalformedGiven =>
        /\ publishCalls = <<>>
        /\ InPrelude \/ pcH = "error"
        /\ pcH = "error" => status = "StatusUnprocessableEntity"

(* C13 (amended): such a request publishes no job and ends with an error:   *)
(* the validation error, or, in the parallel handlers, the error of         *)
(* OpenSplitCorpus, which is called before any argument is parsed.          *)
C13_MalformedRejectedOnceOpened ==
    MalformedGiven =>
        /\ publishCalls = <<>>
        /\ InPrelude \/ pcH = "error"
        /\ pcH = "error" =>
              \/ status = "StatusUnprocessableEntity"
              \/ /\ status = "StatusInternalServerError"
                 /\ handler \in {"FreqDistribParallel", "TextTypesParallel"}
                 /\ flimit = 1 /\ maxItems = 0

\* TextTypesParallel with a good flimit and a malformed maxItems
C13_Witness ==
    /\ handler = "TextTypesParallel"
    /\ flimitArg = Decimal(2) /\ flimit = 2
    /\ maxItemsArg = <<"2", "x">>
    /\ pcH = "error"
    /\ status = "StatusUnprocessableEntity"
    /\ publishCalls = <<>>

PathsOf(calls) == { calls[i].args.SubcPath : i \in 1..Len(calls) }
LimitOf(args) == IF handler = "FreqDistribParallel" THEN args.Limit ELSE args.FreqLimit

(* C17: the parallel handlers call PublishQuery once for each shard path of *)
(* the opened set, in the set's order: never twice for one path, never for  *)
(* a path outside the set, for every path once the loop is over; each job   *)
(* carries its shard's path, and the corpus path, query, criterion and      *)
(* limits are the same in all jobs of the request.                          *)
C17_OnePublicationPerShard ==
    LET n == Len(publishCalls) IN
    /\ n <= Len(Subcorpora)
    /\ \A i \in 1..n : publishCalls[i].args.SubcPath = Subcorpora[i]
    /\ \A i, j \in 1..n :
          i # j => publishCalls[i].args.SubcPath # publishCalls[j].args.SubcPath
    /\ PathsOf(publishCalls) \subseteq { Subcorpora[i] : i \in Shards }
    /\ LoopOver => PathsOf(publishCalls) = { Subcorpora[i] : i \in Shards }
    /\ \A i \in 1..n :
          /\ publishCalls[i].args.CorpusPath = "corpusPath"
          /\ publishCalls[i].args.Query = "q"
          /\ publishCalls[i].args.Crit = publishCalls[1].args.Crit
          /\ LimitOf(publishCalls[i].args) = flimit
          /\ publishCalls[i].args.MaxResults = maxItems

\* two shards, the first publication refused, a limit given
C17_Witness ==
    /\ pcH = "wait"
    /\ Len(Subcorpora) = 2
    /\ Len(publishCalls) = 2
    /\ ~publishCalls[1].ok /\ publishCalls[2].ok
    /\ flimit = 2

InMerge(s) == task[s] \in {"merge", "unlock"}

(* C18: at most one shard task is between mergedFreqLock.Lock and Unlock,   *)
(* it is the holder of the lock, and a task waiting on its future does not  *)
(* hold the lock.                                                           *)
C18_MergeMutualExclusion ==
    /\ \A s, t \in Shards : (InMerge(s) /\ InMerge(t)) => s = t
    /\ \A s \in Shards : InMerge(s) <=> mergedFreqLock = s
    /\ \A s \in Shards : task[s] = "await" => mergedFreqLock # s

\* one task merging while the other waits for the lock
C18_Witness ==
    /\ Len(Subcorpora) = 2
    /\ task[1] = "merge" /\ mergedFreqLock = 1
    /\ task[2] = "lock"

PassedBarrier == pcH \in {"cut", "done", "panicked"}

(* C19: once wg.Wait has returned, every shard task has finished (none is   *)
(* in or before its merge) and the accumulator the requester reads holds    *)
(* the contribution of every shard.                                         *)
C19_ResponseAfterAllShards ==
    /\ PassedBarrier => (wg = 0 /\ \A s \in Shards : task[s] = "end")
    /\ ((pcH = "done" /\ handler = "FreqDistribParallel") \/ pcH = "cut") =>
          \A w \in Words :
             FreqOf(result.Freqs, w)
                = TotalFreq(w, Len(Subcorpora), [s \in Shards |-> resultNext[s].Freqs])
    /\ (pcH = "done" /\ handler = "FreqDistribParallel") => response = result.Freqs

\* two shards, both merged, the response written
C19_Witness ==
    /\ pcH = "done"
    /\ handler = "FreqDistribParallel"
    /\ Len(Subcorpora) = 2
    /\ \A s \in Shards : task[s] = "end" /\ resultNext[s].Freqs # <<>>
    /\ Len(response) = 3

---------------------------------------------------------------------------
(* C11: a SplitCorpus (resp. MultiSample) request for a corpus whose shard  *)
(* set already exists ends, in the step that finds it, with a conflict      *)
(* error; no descriptor is created or overwritten, splitCorpus is not       *)
(* called, no job is published, and nothing happens after the error.        *)
C11_ExistingSetConflict ==
    [][/\ (pcH = "begin" /\ handler \in {"SplitCorpus", "MultiSample"} /\ dirExists
              /\ DOMAIN files # {})
          => /\ pcH' = "error"
             /\ status' = "StatusConflict"
             /\ response' \in {AlreadyExists, ErrorResponse}
             /\ files' = files
             /\ pcS' = "idle"
             /\ publishCalls' = <<>>
       /\ pcH = "error" => UNCHANGED vars]_vars

\* the conflict answer over an existing descriptor, which is as it was
C11_Witness ==
    /\ handler = "SplitCorpus"
    /\ pcH = "error"
    /\ status = "StatusConflict"
    /\ response = AlreadyExists
    /\ dirExists
    /\ files = ExistingShardSet
    /\ pcS = "idle"
    /\ publishCalls = <<>>

(* C20: in SplitCorpus, MultiSample and CollFreqData every unit added to    *)
(* the WaitGroup is taken off it again, whether its publication was         *)
(* accepted or refused: the handler is never left waiting with nothing      *)
(* able to happen, and it responds with the counter at 0.                   *)
C20_EditBarrierPassed ==
    /\ HandlerFinished \/ ENABLED EditNext
    /\ pcH = "done" => wg = 0

---------------------------------------------------------------------------
(* C22: after a splitCorpus call that failed midway, with k descriptors     *)
(* written (0 < k < numChunks), splitCorpusExists reports false for the     *)
(* corpus.                                                                  *)
C22_PartialSetNotExisting ==
    (pcS = "error" /\ 0 < chunkIdx /\ chunkIdx < numChunks
        /\ \A i \in 0..(chunkIdx - 1) : Len(FileContent(ChunkPath(i))) = 16)
    => ~ShardSetExists

(* C24: createSubcorpus that returns nil on a path that did not exist       *)
(* leaves a file of exactly 16 bytes, bytes 0..7 the little-endian fromIdx  *)
(* and bytes 8..15 the little-endian toIdx; reading the two fields back     *)
(* gives (fromIdx, toIdx).                                                  *)
C24_DescriptorRoundTrip ==
    [][(pcS = "create" /\ ChunkPath(0) \notin DOMAIN files /\ pcS' = "created")
       => LET bytes == FileContent(ChunkPath(0))' IN
          /\ Len(bytes) = 16
          /\ \A i \in 1..16 : bytes[i] \in 0..255
          /\ Uint64(SubSeq(bytes, 1, 8)) = fromIdxArg
          /\ Uint64(SubSeq(bytes, 9, 16)) = toIdxArg]_vars

\* a new descriptor whose two fields need more than one byte and differ
C24_Witness ==
    /\ pcS = "created"
    /\ fromIdxArg = maxSplitChunkSize
    /\ toIdxArg = 2147483647
    /\ FileContent(ChunkPath(0)) = <<0, 225, 245, 5, 0, 0, 0, 0, 255, 255, 255, 127, 0, 0, 0, 0>>

---------------------------------------------------------------------------
\* how far a shard's goroutine has come
TaskRank(t) ==
    CASE t = "none" -> 0 [] t = "pubfailed" -> 0
      [] t = "await" -> 1 [] t = "deser" -> 2 [] t = "lock" -> 3 [] t = "merge" -> 4
      [] t = "unlock" -> 5 [] t = "wgdone" -> 6 [] t = "end" -> 7

\* the shards whose goroutine moves in a step
Moved == { s \in DOMAIN task \cap DOMAIN task' : task'[s] # task[s] }

(* C25: within one shard of FreqDistribParallel / TextTypesParallel the      *)
(* steps follow one another in one order: publish, the future resolves,     *)
(* receive, decode, lock, merge, unlock, wg.Done. The future is received    *)
(* from once, after it resolved; the merge is made with the mutex held and  *)
(* the slot is released once, after the mutex was released.                 *)
C25_ShardStepsSequential ==
    [][/\ \A s \in DOMAIN task \cap DOMAIN task' :
             \* one step at a time, never back, never past a step
             /\ s \in Moved
                => \/ task[s] = "none" /\ task'[s] \in {"await", "pubfailed"}
                   \/ TaskRank(task[s]) >= 1 /\ TaskRank(task'[s]) = TaskRank(task[s]) + 1
             \* published before awaited
             /\ task'[s] = "await" => jobs'[s] # NoJob /\ wait'[s].state \in {"pending", "resolved"}
             \* the future resolves only while it is awaited, and only once
             /\ (wait'[s].state = "resolved" /\ wait[s].state # "resolved")
                => wait[s].state = "pending" /\ task[s] = "await" /\ s \notin Moved
             \* received from once, after it resolved, as the goroutine leaves its await
             /\ (task[s] = "await" /\ s \in Moved)
                <=> (wait[s].state = "resolved" /\ wait'[s].state = "consumed")
             /\ wait[s].state = "consumed" => wait'[s] = wait[s] /\ tmp'[s] = tmp[s]
             /\ (wait'[s].state = "consumed" /\ wait[s].state # "consumed")
                => tmp'[s] = wait[s].envelope
             \* decoded after received, before the merge
             /\ resultNext'[s] # resultNext[s] => task[s] = "deser" /\ task'[s] = "lock"
             \* merged with the mutex held, before it is released
             /\ (task[s] = "merge" /\ s \in Moved)
                => /\ mergedFreqLock = s /\ mergedFreqLock' = s
                   /\ result' = MergeWith(result, resultNext[s])
             /\ (task[s] = "unlock" /\ s \in Moved) => mergedFreqLock = s /\ mergedFreqLock' = 0
             \* the slot released once, after the mutex
             /\ (task[s] = "wgdone" /\ s \in Moved) => wg' = wg - 1 /\ mergedFreqLock # s
       \* the accumulator changes in a shard's merge only (and where the handler
       \* makes it and, past the barrier, sorts and cuts it)
       /\ result' # result
          => (\E s \in Moved : task[s] = "merge") \/ pcH \in {"start", "wait", "cut"}
       /\ wg' < wg => wg' = wg - 1 /\ \E s \in Moved : task'[s] = "end"
       /\ Cardinality(Moved) <= 1]_vars

\* one shard through all its steps while the other still awaits its future
C25_Witness ==
    /\ Len(Subcorpora) = 2
    /\ \E s, t \in Shards :
          /\ task[s] = "end" /\ wait[s].state = "consumed"
          /\ resultNext[s].Freqs # <<>>
          /\ task[t] = "await" /\ wait[t].state = "pending"
    /\ wg = 1
    /\ result.Freqs # <<>>

---------------------------------------------------------------------------
\* the units of CollFreqData whose existence check gave the answer a
Answered(a) == { k \in DOMAIN dataCheck : dataCheck[k] = a }

(* C26: CollFreqData publishes calcCollFreqData for a (shard, attribute)    *)
(* pair only where CollFreqDataExists succeeded and answered false; where   *)
(* it answered true or failed, nothing is published and nothing added to    *)
(* the barrier. When no pair is missing its data the handler publishes      *)
(* nothing and responds without waiting.                                    *)
C26_PublishOnlyMissingData ==
    (handler = "CollFreqData" /\ pcH \in {"loop", "wait", "done"})
    => /\ \A k \in Answered("exists") \cup Answered("error") :
             /\ jobs[k] = NoJob
             /\ wait[k].state = "none"
             /\ \A c \in 1..Len(publishCalls) : publishCalls[c].args # CalcCollFreqDataArgs(k)
       /\ \A c \in 1..Len(publishCalls) :
             \E k \in Answered("missing") : publishCalls[c].args = CalcCollFreqDataArgs(k)
       /\ Len(publishCalls) = Cardinality(Answered("missing"))
       /\ wg = Cardinality({ k \in Answered("missing") : task[k] # "end" })
       /\ (pcH \in {"wait", "done"} /\ Answered("missing") = {})
          => /\ publishCalls = <<>>
             /\ wg = 0
             /\ pcH = "wait" => ENABLED EditWait
             /\ pcH = "done" => response = Subcorpora /\ status = "StatusOK"

\* one pair's data exists, one pair's check failed, two pairs were published
C26_Witness ==
    /\ handler = "CollFreqData"
    /\ pcH = "wait"
    /\ Answered("exists") # {} /\ Answered("error") # {}
    /\ Cardinality(Answered("missing")) = 2
    /\ Len(publishCalls) = 2
    /\ wg = 2

---------------------------------------------------------------------------
(* C21 as stated: of two concurrent SplitCorpus requests for a corpus       *)
(* without a shard set at most one gets past the existence check and        *)
(* writes descriptors, and no descriptor file is written by both.           *)
C21_SingleWriter ==
    (rpc # <<>>)
    => /\ Cardinality({ r \in Requests : rpc[r] \in {"size", "isdir", "chunks", "split"} }) <= 1
       /\ \A p \in DOMAIN writers : Cardinality(writers[p]) <= 1

(* C21 amended: a request whose existence check comes when a descriptor is  *)
(* already in the directory is refused and writes nothing; the check is no  *)
(* lock, so two requests that both check before the first descriptor is     *)
(* written both go on, and then write the same bytes to the same files.     *)
C21_RefusedOnceWritten ==
    [][(rpc # <<>>)
       => /\ \A r \in Requests :
                /\ (rpc[r] = "exists" /\ DOMAIN files # {} /\ rpc'[r] # "exists")
                   => rpc'[r] \in {"refused", "failed"}
                /\ rpc[r] \in {"exists", "refused", "failed"}
                   => \A p \in DOMAIN writers' : r \in writers'[p] => r \in WrittenBy(p)
                /\ rpc[r] \in {"refused", "failed", "split"} => rpc'[r] = rpc[r]
          /\ \A p \in DOMAIN writers' :
                /\ p \in DOMAIN files'
                /\ \E i \in 0..(NumChunks(corpusSize, chunkSize) - 1) :
                      /\ p = ChunkPath(i)
                      /\ files'[p] = SubcorpusBytes(ChunkFrom(i, chunkSize),
                                                    ChunkTo(i, chunkSize))]_vars

\* one request wrote the whole set, the other came after the first
\* descriptor and was refused
C21_Witness ==
    /\ rpc # <<>>
    /\ \E r, q \in Requests :
          /\ rpc[r] = "split"
          /\ rpc[q] = "refused"
          /\ \A p \in DOMAIN writers : writers[p] = {r}
    /\ Cardinality(DOMAIN files) = MaxRaceChunks

---------------------------------------------------------------------------
(* C23: the descriptor file names chunk_<NN>.subc of any two chunks of a    *)
(* split set compare as strings the way their chunk indices compare as      *)
(* numbers, and so the way their from offsets do.                           *)
C23_LexicalIsNumeric ==
    (lexOrder # "none")
    => /\ (lexOrder = "less") <=> (chunkA < chunkB)
       /\ (lexOrder = "equal") <=> (chunkA = chunkB)
       /\ \A c \in ChunkSizes :
             c < maxSplitChunkSize
             => ((lexOrder = "less") <=> (ChunkFrom(chunkA, c) < ChunkFrom(chunkB, c)))

---------------------------------------------------------------------------
(* C27: when the DELETE or a bulk INSERT of runForDeprel fails, the call    *)
(* returns the error and the sink table holds what it held before the       *)
(* call: nothing deleted, no batch inserted.                                *)
C27_FailedRunLeavesSink ==
    (pcD = "returned" /\ dbRet \in {"delete error", "insert error"})
    => sink = RowsBefore

---------------------------------------------------------------------------
\* the tuples Add was called with, and what was added for each
AddedTuples == { adds[n].tuple : n \in 1..Len(adds) }

RECURSIVE SumAdded(_, _)
SumAdded(t, n) ==
    IF n = 0 THEN 0
    ELSE SumAdded(t, n - 1) + (IF adds[n].tuple = t THEN adds[n].val ELSE 0)

(* C28: after any sequence of Add calls the CounterTable holds one entry    *)
(* per distinct (lemma, upos, pLemma, pUpos, deprel) tuple: two different   *)
(* tuples never share an entry, and the Freq of a tuple's entry is the sum  *)
(* of the values added for that tuple.                                      *)
C28_OneEntryPerTuple ==
    /\ \A t, u \in AddedTuples : t # u => KeyOf(t) # KeyOf(u)
    /\ Cardinality(DOMAIN table) = Cardinality(AddedTuples)
    /\ \A t \in AddedTuples :
          /\ KeyOf(t) \in DOMAIN table
          /\ table[KeyOf(t)].Freq = SumAdded(t, Len(adds))
          /\ table[KeyOf(t)].Lemma = t.lemma
          /\ table[KeyOf(t)].Upos = t.upos

=============================================================================
